---- MODULE Spec2Model ----
(***************************************************************************)
(* XSS Risk Detector: the content script (evidence store, static scanner,  *)
(* runtime sink hooks, collectEvidence listener) as a state machine.       *)
(* One page session = one document and the extension's isolated world in   *)
(* it.  Every action is one synchronous run of a script, handler or        *)
(* wrapped call: the page is single-threaded, nothing interleaves inside.  *)
(* Around the page: the service worker's getEvidence handler and the       *)
(* popup's loadEvidence, one step per callback or await.                   *)
(***************************************************************************)
EXTENDS Integers, Sequences, FiniteSets, TLC

(***************************************************************************)
(* Bounds of the model.                                                    *)
(***************************************************************************)
MaxSteps == 4    \* events of one page session: injections, sink calls made by
                 \* page code, collectEvidence requests, clock ticks

MaxLen == 3      \* records of an evidence list handed to a function of the popup

MaxScore == 60   \* quick scores whose level is asked for on its own

MaxExports == 2  \* clicks on Export Report

MaxAnalyses == 2 \* clicks on Analyze with Service

ManyRecords == 10000   \* the largest number of records of one kind sent to the service

MaxRequests == 3 \* requests of the extension's user: getEvidence messages to the
                 \* service worker, loadEvidence runs of the popup

(***************************************************************************)
(* JavaScript values and strings.                                          *)
(***************************************************************************)
Null == "null"       \* null / undefined / absent field

SnippetCap == 200    \* snippet.substring(0, 200)

Str(s) == [t |-> "string", s |-> s]
Num(n) == [t |-> "number", n |-> n]
Fn(src) == [t |-> "function", s |-> src]
Undefined == [t |-> "undefined"]
Throw(name) == [t |-> "throw", s |-> name]

typeof(v) == v.t

Digit(d) == SubSeq("0123456789", d + 1, d + 1)

RECURSIVE Decimal(_)
Decimal(n) == IF n < 10 THEN Digit(n) ELSE Decimal(n \div 10) \o Digit(n % 10)

\* String(v): the text a value converts to.
StringOf(v) ==
  CASE v.t = "string" -> v.s
    [] v.t = "number" -> Decimal(v.n)
    [] v.t = "function" -> v.s
    [] OTHER -> "undefined"

\* substring with a bug: the cap is not applied
SubstringWhole(s, n) == s

\* s.substring(0, n)
Substring0(s, n) == IF Len(s) > n THEN SubSeq(s, 1, n) ELSE s

\* the attribute selector [attr^="prefix"]
StartsWith(s, p) == Len(s) >= Len(p) /\ SubSeq(s, 1, Len(p)) = p

IsSpace(c) == c \in {" ", "\n", "\t"}

RECURSIVE TrimStart(_)
TrimStart(s) ==
  IF Len(s) > 0 /\ IsSpace(SubSeq(s, 1, 1)) THEN TrimStart(SubSeq(s, 2, Len(s))) ELSE s

RECURSIVE TrimEnd(_)
TrimEnd(s) ==
  IF Len(s) > 0 /\ IsSpace(SubSeq(s, Len(s), Len(s)))
  THEN TrimEnd(SubSeq(s, 1, Len(s) - 1)) ELSE s

\* trim with a bug: nothing is removed
TrimNothing(s) == s

\* content.trim()
Trim(s) == TrimEnd(TrimStart(s))

\* tagName.toLowerCase() over the tag names the model uses
ToLowerCase(tagName) ==
  CASE tagName = "HTML" -> "html"
    [] tagName = "HEAD" -> "head"
    [] tagName = "BODY" -> "body"
    [] tagName = "BUTTON" -> "button"
    [] tagName = "A" -> "a"
    [] tagName = "IMG" -> "img"
    [] tagName = "IFRAME" -> "iframe"
    [] tagName = "SCRIPT" -> "script"
    [] tagName = "DIV" -> "div"
    [] tagName = "P" -> "p"
    [] OTHER -> tagName

RECURSIVE Repeat(_, _)
Repeat(s, n) == IF n = 0 THEN "" ELSE s \o Repeat(s, n - 1)

(***************************************************************************)
(* The document: elements in document order, as querySelectorAll('*')      *)
(* returns them.  An element is its tagName, its attributes (name, value)  *)
(* and its text content.                                                   *)
(***************************************************************************)
Elem(tagName, attrs, text) == [tagName |-> tagName, attrs |-> attrs, text |-> text]

hasAttribute(elem, name) == \E i \in 1..Len(elem.attrs) : elem.attrs[i][1] = name

getAttribute(elem, name) ==
  IF hasAttribute(elem, name)
  THEN elem.attrs[CHOOSE i \in 1..Len(elem.attrs) : elem.attrs[i][1] = name][2]
  ELSE Null

\* elem.href: the reflected URL property, defined on anchors only
HrefProperty(elem) ==
  IF elem.tagName = "A" /\ hasAttribute(elem, "href") THEN getAttribute(elem, "href") ELSE Null

LongScript == "var a = 1; " \o Repeat("a = a + 1; ", 20)

\* The observed page: the three indicators of the testing guide's page (Test 3:
\* a button with onclick, a javascript: link, an inline script) among elements
\* that carry several indicators, none, or near misses of each rule.
PageDocument ==
  << Elem("HTML", <<>>, ""), Elem("HEAD", <<>>, ""),
     Elem("SCRIPT", <<>>, LongScript),
     Elem("SCRIPT", << <<"src", "app.js">> >>, "fallback();"),
     Elem("BODY", << <<"onload", "init()">> >>, ""),
     Elem("IMG", << <<"src", "javascript:alert(1)">>, <<"onerror", "e()">>,
                    <<"onclick", "">> >>, ""),
     Elem("A", << <<"href", "https://example.com/">> >>, "safe"),
     Elem("IFRAME", << <<"src", "javascript:void(0)">> >>, ""),
     Elem("SCRIPT", <<>>, "  \n "),
     Elem("BUTTON", << <<"onclick", "alert('test')">> >>, "Click"),
     Elem("A", << <<"href", "javascript:void(0)">> >>, "Link"),
     Elem("SCRIPT", <<>>, "console.log('inline');"),
     Elem("A", << <<"href", "JavaScript:alert(2)">>, <<"onfocus", "f()">> >>, "Run") >>

(***************************************************************************)
(* State of one page session.                                              *)
(***************************************************************************)
VARIABLES
  doc,               \* the document (static during the session)
  readyState,        \* document.readyState: "loading" or "complete"
  href,              \* window.location.href
  clock,             \* the instant new Date() reads
  platform,          \* per sink: how the host lets the property be replaced
  scriptLoaded,      \* content.js's top-level bindings exist in the isolated world
  evidenceList,      \* let evidenceList
  evidenceIdCounter, \* let evidenceIdCounter
  hookDepth,         \* per sink: number of wrappers layered over the original
  domListeners,      \* DOMContentLoaded listeners bound to collectStaticSignals
  messageListeners,  \* chrome.runtime.onMessage listeners of the content script
  injections,        \* outcome of every executeScript of content.js so far
  scanRuns,          \* completed runs of collectStaticSignals
  events,            \* the runs of collectStaticSignals ("scan") and of
                     \* hookRuntimeSinks ("hooks") in the order they ended
  callCount,         \* sink invocations made by page code so far
  lastCall,          \* the latest of them: what was called, under how many
                     \* wrappers, after how many injections, what the originals
                     \* received during it, what it returned
  responses          \* collectEvidence responses handed to the message channel

(***************************************************************************)
(* State of the extension around the page: the background service worker   *)
(* (background.js) and the popup (popup.js).                               *)
(***************************************************************************)
VARIABLES
  bgStage,           \* getEvidence handler: "idle", "query" (chrome.tabs.query
                     \* pending) or "sent" (chrome.tabs.sendMessage pending)
  bgTab,             \* tabs[0] of the handler under way
  bgRequests,        \* getEvidence requests received so far
  bgAnswers,         \* every sendResponse of the handler: request and body
  popupStage,        \* loadEvidence: "idle", "query", "inject" or "sent"
  popupTab,          \* tab of the loadEvidence run under way
  popupLoads,        \* loadEvidence runs started so far
  lastLoad,          \* how the latest finished run ended
  currentEvidence,   \* let currentEvidence
  currentUrl,        \* let currentUrl
  evidenceCount,     \* text of #evidenceCount
  riskBadge,         \* level shown by #riskBadge / #riskLevel
  container,         \* what #evidenceContainer shows
  typeFilter,        \* value of #typeFilter
  severityFilter,    \* value of #severityFilter
  sortBy,            \* value of #sortBy
  displayed,         \* the records #evidenceContainer shows as cards, in order
  downloads,         \* the reports handed to chrome.downloads.download so far
  analysisStage,     \* analyzeWithService: "idle" or "fetch" (fetch pending)
  analysisResults,   \* #analysisResults: its display and the texts of
                     \* #analysisScore, #analysisVerdict and #analysisSummary
  alerts,            \* error.message of every alert analyzeWithService has shown
  analyses,          \* analyzeWithService runs started so far
  probe              \* a scoring function applied on its own: which one, to
                     \* what, with what result

bgVars == << bgStage, bgTab, bgRequests, bgAnswers >>

analysisVars == << analysisStage, analysisResults, alerts, analyses >>

popupVars == << popupStage, popupTab, popupLoads, lastLoad, currentEvidence,
                currentUrl, evidenceCount, riskBadge, container, typeFilter,
                severityFilter, sortBy, displayed, downloads, analysisVars >>

pageVars == << doc, readyState, href, clock, platform, scriptLoaded, evidenceList,
               evidenceIdCounter, hookDepth, domListeners, messageListeners,
               injections, scanRuns, events, callCount, lastCall, responses >>

vars == << doc, readyState, href, clock, platform, scriptLoaded, evidenceList,
           evidenceIdCounter, hookDepth, domListeners, messageListeners,
           injections, scanRuns, events, callCount, lastCall, responses,
           bgStage, bgTab, bgRequests, bgAnswers,
           popupStage, popupTab, popupLoads, lastLoad, currentEvidence,
           currentUrl, evidenceCount, riskBadge, container, typeFilter,
           severityFilter, sortBy, displayed, downloads, analysisStage,
           analysisResults, alerts, analyses, probe >>

\* The part of the state a synchronous run of code threads through: the
\* store, the id counter, the calls the originals received during the run,
\* the size of the store as each of them started, and the value (or
\* exception) the last finished call produced.
Run(list, ctr) ==
  [list |-> list, ctr |-> ctr, log |-> <<>>, seen |-> <<>>, ret |-> Undefined]

\* a call of addEvidence that passes no location
NoLocation == [absent |-> TRUE]

\* addEvidence with a bug: the incremented counter is never stored
addEvidenceStaleCounter(st, type, severity, snippet, location, stack) ==
  [st EXCEPT !.list = Append(@,
     [id |-> st.ctr + 1, time |-> clock, type |-> type, severity |-> severity,
      location |-> location, snippet |-> Substring0(snippet, SnippetCap),
      stack |-> stack])]

\* addEvidence with a bug: a record equal in type and snippet to the latest
\* one is coalesced into it
addEvidenceCoalescing(st, type, severity, snippet, location, stack) ==
  IF /\ st.list # <<>>
     /\ st.list[Len(st.list)].type = type
     /\ st.list[Len(st.list)].snippet = Substring0(snippet, SnippetCap)
  THEN st
  ELSE [st EXCEPT !.ctr = @ + 1,
                  !.list = Append(@,
                    [id |-> st.ctr + 1, time |-> clock, type |-> type,
                     severity |-> severity, location |-> location,
                     snippet |-> Substring0(snippet, SnippetCap), stack |-> stack])]

\* addEvidence with a bug: unshift instead of push
addEvidenceNewestFirst(st, type, severity, snippet, location, stack) ==
  [st EXCEPT !.ctr = @ + 1,
             !.list = <<[id |-> st.ctr + 1, time |-> clock, type |-> type,
                         severity |-> severity, location |-> location,
                         snippet |-> Substring0(snippet, SnippetCap),
                         stack |-> stack]>> \o @]

\* addEvidence with a bug: a stack is captured when none is passed
addEvidenceCapturesStack(st, type, severity, snippet, location, stack) ==
  [st EXCEPT !.ctr = @ + 1,
             !.list = Append(@,
               [id |-> st.ctr + 1, time |-> clock, type |-> type,
                severity |-> severity, location |-> location,
                snippet |-> Substring0(snippet, SnippetCap),
                stack |-> IF stack = Null THEN "Error\n    at addEvidence" ELSE stack])]

\* addEvidence with a bug: evidenceIdCounter++ for ++evidenceIdCounter
addEvidencePostIncrement(st, type, severity, snippet, location, stack) ==
  [st EXCEPT !.ctr = @ + 1,
             !.list = Append(@,
               [id |-> st.ctr, time |-> clock, type |-> type, severity |-> severity,
                location |-> location, snippet |-> Substring0(snippet, SnippetCap),
                stack |-> stack])]

\* function addEvidence(type, severity, snippet, location, stack = null)
addEvidence(st, type, severity, snippet, location, stack) ==
  LET id == st.ctr + 1
      evidence ==
        [id |-> id,
         time |-> clock,
         type |-> type,
         severity |-> severity,
         location |-> IF location # NoLocation THEN location
                      ELSE [url |-> href, selector |-> Null],
         snippet |-> IF snippet # "" THEN Substring0(snippet, SnippetCap) ELSE "",
         stack |-> stack]
  IN [st EXCEPT !.ctr = id, !.list = Append(@, evidence)]

(***************************************************************************)
(* collectStaticSignals: three passes over the document, each in document  *)
(* order.                                                                  *)
(***************************************************************************)
inlineEventAttrs ==
  << "onerror", "onclick", "onload", "onmouseover", "onmouseout",
     "onmouseenter", "onmouseleave", "onfocus", "onblur", "onchange",
     "onsubmit", "onkeydown", "onkeyup", "onkeypress" >>

\* 1. inline event handlers: allElements.forEach((elem, index) =>
\*    inlineEventAttrs.forEach(attr => ...)), the (element, attribute) pairs
\*    in the order the nested loops visit them
EventHandlerVisits ==
  LET n == Len(inlineEventAttrs)
  IN [k \in 1..(Len(doc) * n) |-> << ((k - 1) \div n) + 1, ((k - 1) % n) + 1 >>]

\* the test with a bug: if (elem.getAttribute(attr)), an empty handler is skipped
EventHandlerHitNonEmpty(v) ==
  /\ hasAttribute(doc[v[1]], inlineEventAttrs[v[2]])
  /\ getAttribute(doc[v[1]], inlineEventAttrs[v[2]]) # ""

EventHandlerHit(v) == hasAttribute(doc[v[1]], inlineEventAttrs[v[2]])

RECURSIVE ScanEventHandlers(_, _)
ScanEventHandlers(st, hits) ==
  IF hits = <<>> THEN st
  ELSE LET elem == doc[Head(hits)[1]]
           attr == inlineEventAttrs[Head(hits)[2]]
           value == getAttribute(elem, attr)
           next == addEvidence(st, "inline-event-handler", "medium",
                               attr \o "=\"" \o value \o "\"",
                               [url |-> href,
                                selector |-> ToLowerCase(elem.tagName) \o "[" \o attr \o "]",
                                index |-> Head(hits)[1] - 1],
                               Null)
       IN ScanEventHandlers(next, Tail(hits))

\* a[href^="javascript:"], iframe[src^="javascript:"], img[src^="javascript:"]
MatchesJsProtocol(elem) ==
  \/ elem.tagName = "A" /\ hasAttribute(elem, "href")
       /\ StartsWith(getAttribute(elem, "href"), "javascript:")
  \/ elem.tagName \in {"IFRAME", "IMG"} /\ hasAttribute(elem, "src")
       /\ StartsWith(getAttribute(elem, "src"), "javascript:")

\* 2. javascript: URLs: jsProtocolElements.forEach((elem, index) => ...),
\*    elems the rest of the node list, k the index of its head
RECURSIVE ScanJsProtocol(_, _, _)
ScanJsProtocol(st, elems, k) ==
  IF elems = <<>> THEN st
  ELSE LET elem == Head(elems)
           attr == IF HrefProperty(elem) \notin {Null, ""} THEN "href" ELSE "src"
           value == getAttribute(elem, attr)
           next == addEvidence(st, "javascript-protocol", "high",
                               attr \o "=\"" \o value \o "\"",
                               [url |-> href,
                                selector |-> ToLowerCase(elem.tagName) \o "[" \o attr
                                               \o "^=\"javascript:\"]",
                                index |-> k],
                               Null)
       IN ScanJsProtocol(next, Tail(elems), k + 1)

\* script:not([src])
MatchesInlineScript(elem) == elem.tagName = "SCRIPT" /\ ~hasAttribute(elem, "src")

\* 3. inline script blocks: inlineScripts.forEach((script, index) => ...)
RECURSIVE ScanInlineScripts(_, _, _)
ScanInlineScripts(st, elems, k) ==
  IF elems = <<>> THEN st
  ELSE LET content == Head(elems).text
           next == IF content # "" /\ Len(Trim(content)) > 0
                   THEN addEvidence(st, "inline-script", "low", content,
                                    [url |-> href, selector |-> "script:not([src])",
                                     index |-> k, length |-> Len(content)],
                                    Null)
                   ELSE st
       IN ScanInlineScripts(next, Tail(elems), k + 1)

\* the scan with a bug: between two passes it parses markup by assigning a
\* scratch element's innerHTML, which is a sink
collectStaticSignalsParsing(st) ==
  LET st1 == ScanEventHandlers(st, SelectSeq(EventHandlerVisits, EventHandlerHit))
      st2 == ScanJsProtocol(st1, SelectSeq(doc, MatchesJsProtocol), 0)
      st3 == IF hookDepth["innerHTML"] > 0
             THEN addEvidence(st2, "innerhtml-set", "medium", "<a>",
                              [url |-> href, selector |-> "div"], "Error\n    at <wrapper>")
             ELSE st2
  IN ScanInlineScripts(st3, SelectSeq(doc, MatchesInlineScript), 0)

collectStaticSignals(st) ==
  LET st1 == ScanEventHandlers(st, SelectSeq(EventHandlerVisits, EventHandlerHit))
      st2 == ScanJsProtocol(st1, SelectSeq(doc, MatchesJsProtocol), 0)
  IN ScanInlineScripts(st2, SelectSeq(doc, MatchesInlineScript), 0)

(***************************************************************************)
(* hookRuntimeSinks: the sinks in the order the function replaces them.    *)
(***************************************************************************)
SinkOrder ==
  << "eval", "Function", "write", "writeln", "setTimeout", "setInterval",
     "innerHTML", "outerHTML", "insertAdjacentHTML" >>

Sinks == { SinkOrder[i] : i \in 1..Len(SinkOrder) }

\* How the host answers the replacement of one sink:
\*   "ok"     the assignment / Object.defineProperty takes effect;
\*   "silent" nothing is replaced and nothing is thrown: a non-writable
\*            property assigned in sloppy mode (content.js is not strict); for
\*            innerHTML / outerHTML no descriptor or no setter, so the
\*            if-guard skips the sink;
\*   "throws" Object.defineProperty throws a TypeError (the property is not
\*            configurable).
Modes(sink) ==
  IF sink \in {"innerHTML", "outerHTML"} THEN {"ok", "silent", "throws"}
  ELSE {"ok", "silent"}

\* hosts on which at most one sink cannot be replaced
Platforms ==
  { p \in [Sinks -> {"ok", "silent", "throws"}] :
      /\ \A s \in Sinks : p[s] \in Modes(s)
      /\ Cardinality({ s \in Sinks : p[s] # "ok" }) <= 1 }

\* The host's answer to replacing `sink` now.  Object.defineProperty is given
\* {set, get} only, so the property it leaves is not configurable and defining
\* it once more throws.
Replace(sink, depth) ==
  IF sink \in {"innerHTML", "outerHTML"} /\ platform[sink] = "ok" /\ depth[sink] > 0
  THEN "throws"
  ELSE platform[sink]

\* the statements of hookRuntimeSinks from sink i on; there is no try/catch in
\* the function, so the first throw ends it
RECURSIVE InstallFrom(_, _)
InstallFrom(i, depth) ==
  IF i > Len(SinkOrder) THEN [depth |-> depth, threw |-> FALSE]
  ELSE LET sink == SinkOrder[i]
       IN CASE Replace(sink, depth) = "ok" ->
                 InstallFrom(i + 1, [depth EXCEPT ![sink] = @ + 1])
            [] Replace(sink, depth) = "silent" -> InstallFrom(i + 1, depth)
            [] OTHER -> [depth |-> depth, threw |-> TRUE]

hookRuntimeSinks(depth) == InstallFrom(1, depth)

(***************************************************************************)
(* The wrappers and the originals.                                         *)
(***************************************************************************)
Window == [kind |-> "window", tagName |-> Null]
Document == [kind |-> "document", tagName |-> Null]
Element(tagName) == [kind |-> "element", tagName |-> tagName]

\* the i-th argument of a call, undefined when it was not passed
Arg(args, i) == IF i <= Len(args) THEN args[i] ELSE Undefined

Stack == "Error\n    at <wrapper>"    \* new Error().stack

\* this.tagName ? this.tagName.toLowerCase() : 'unknown'
SelectorOf(this) == IF this.tagName # Null THEN ToLowerCase(this.tagName) ELSE "unknown"

\* the type literal each wrapper passes to addEvidence
SinkType(sink) ==
  CASE sink = "eval" -> "eval-call"
    [] sink = "Function" -> "function-constructor"
    [] sink = "write" -> "document-write"
    [] sink = "writeln" -> "document-writeln"
    [] sink = "setTimeout" -> "settimeout-string"
    [] sink = "setInterval" -> "setinterval-string"
    [] sink = "innerHTML" -> "innerhtml-set"
    [] sink = "outerHTML" -> "outerhtml-set"
    [] OTHER -> "insertadjacenthtml"

\* the wrappers with a bug: every sink is reported as high
SinkSeverityAllHigh(sink) == "high"

\* the severity literal each wrapper passes to addEvidence
SinkSeverity(sink) ==
  CASE sink \in {"eval", "Function", "setTimeout", "setInterval"} -> "high"
    [] OTHER -> "medium"

\* the schedulers with a bug: the typeof test is missing
RecordsCallAlways(sink, args) == TRUE

\* whether the wrapper records the call: the schedulers only when
\* typeof code === 'string', the others always
RecordsCall(sink, args) ==
  IF sink \in {"setTimeout", "setInterval"} THEN typeof(Arg(args, 1)) = "string" ELSE TRUE

\* the snippet argument each wrapper passes to addEvidence
SinkSnippet(sink, args) ==
  CASE sink = "eval" ->
         IF typeof(Arg(args, 1)) = "string" THEN Arg(args, 1).s ELSE StringOf(Arg(args, 1))
    [] sink = "Function" ->
         IF Len(args) > 0 THEN StringOf(args[Len(args)]) ELSE StringOf(Str(""))
    [] sink \in {"setTimeout", "setInterval"} -> StringOf(Arg(args, 1))
    [] sink = "insertAdjacentHTML" -> StringOf(Arg(args, 2))
    [] OTHER -> StringOf(Arg(args, 1))

\* the location argument each wrapper passes to addEvidence
SinkLocation(sink, this, args) ==
  CASE sink \in {"innerHTML", "outerHTML"} ->
         [url |-> href, selector |-> SelectorOf(this)]
    [] sink = "insertAdjacentHTML" ->
         [url |-> href, selector |-> SelectorOf(this), position |-> Arg(args, 1)]
    [] OTHER -> [url |-> href]

\* what one wrapper does before it delegates
WrapperRecord(sink, st, this, args) ==
  IF RecordsCall(sink, args)
  THEN addEvidence(st, SinkType(sink), SinkSeverity(sink), SinkSnippet(sink, args),
                   SinkLocation(sink, this, args), Stack)
  ELSE st

\* the wrappers with a bug: originalX(...arguments), the receiver is lost
ForwardedUnbound(sink, this, args) == [sink |-> sink, this |-> Window, args |-> args]

\* what a wrapper hands to the original: originalX.apply(this, arguments),
\* originalDesc.set.call(this, value)
Forwarded(sink, this, args) == [sink |-> sink, this |-> this, args |-> args]

RECURSIVE Invoke(_, _, _, _, _)

\* the host's own operation; eval runs the code it is given in the page, so
\* code that calls a sink reaches whatever is installed for that sink
Original(st, call) ==
  LET got == [st EXCEPT !.log = Append(@, call), !.seen = Append(@, Len(st.list))]
      code == Arg(call.args, 1)
  IN CASE call.sink = "eval" ->
            IF typeof(code) # "string" THEN [got EXCEPT !.ret = code]
            ELSE IF code.s = "1+1" THEN [got EXCEPT !.ret = Num(2)]
            ELSE IF code.s = "(" THEN [got EXCEPT !.ret = Throw("SyntaxError")]
            ELSE IF code.s = "document.write('x')"
                 THEN [Invoke("write", hookDepth["write"], got, Document, <<Str("x")>>)
                         EXCEPT !.ret = Undefined]
            ELSE [got EXCEPT !.ret = Undefined]
       [] call.sink = "Function" -> [got EXCEPT !.ret = Fn("function anonymous")]
       [] call.sink \in {"setTimeout", "setInterval"} ->
            [got EXCEPT !.ret = Num(callCount + 1)]
       [] OTHER -> [got EXCEPT !.ret = Undefined]

\* the wrappers with a bug: the original runs first, the record is made after
InvokeThenRecord(sink, level, st, this, args) ==
  IF level = 0 THEN Original(st, Forwarded(sink, this, args))
  ELSE LET done == Invoke(sink, level - 1, st, this, args)
       IN [WrapperRecord(sink, done, this, args) EXCEPT !.ret = done.ret]

\* the wrappers with a bug: an exception of the original is caught and the
\* record of the call taken back
InvokeTakesBack(sink, level, st, this, args) ==
  IF level = 0 THEN Original(st, Forwarded(sink, this, args))
  ELSE LET done == Invoke(sink, level - 1, WrapperRecord(sink, st, this, args), this, args)
       IN IF typeof(done.ret) = "throw"
          THEN [done EXCEPT !.list = st.list, !.ctr = st.ctr, !.ret = Undefined]
          ELSE done

\* a call of the sink as installed under `level` wrappers: each wrapper
\* records, then delegates to what it captured as the original
Invoke(sink, level, st, this, args) ==
  IF level = 0 THEN Original(st, Forwarded(sink, this, args))
  ELSE Invoke(sink, level - 1, WrapperRecord(sink, st, this, args), this, args)

LongMarkup == "<ul>" \o Repeat("<li>item</li>", 16) \o "</ul>"

\* the calls page code makes in the model
SinkInputs ==
  { [sink |-> "eval", this |-> Window, args |-> <<Str(c)>>] :
      c \in {"1+1", "(", "document.write('x')"} }
  \cup
  { [sink |-> "Function", this |-> Window, args |-> <<Str("a"), Str("return a")>>],
    [sink |-> "write", this |-> Document, args |-> <<Str(LongMarkup)>>],
    [sink |-> "writeln", this |-> Document, args |-> <<Num(7)>>],
    [sink |-> "setTimeout", this |-> Window, args |-> <<Str("tick()"), Num(0)>>],
    [sink |-> "setTimeout", this |-> Window, args |-> <<Fn("function () {}"), Num(0)>>],
    [sink |-> "setInterval", this |-> Window, args |-> <<Str("tick()"), Num(10)>>],
    [sink |-> "setInterval", this |-> Window, args |-> <<Fn("function () {}"), Num(10)>>],
    [sink |-> "innerHTML", this |-> Element("DIV"),
     args |-> <<Str("<img src=x onerror=alert(1)>")>>],
    [sink |-> "outerHTML", this |-> Element("P"), args |-> <<Str("<p></p>")>>],
    [sink |-> "insertAdjacentHTML", this |-> Element("P"),
     args |-> <<Str("beforeend"), Str("<i>x</i>")>>] }

(***************************************************************************)
(* Message channel of chrome.runtime: a response is serialised when it is  *)
(* sent, the receiver gets a value of its own.                             *)
(***************************************************************************)
\* JSON round trip of one record: a key whose value is undefined or a
\* function is dropped, null, strings and numbers are kept
JsonRecord(e) ==
  IF "position" \in DOMAIN e.location /\ e.location.position.t \in {"undefined", "function"}
  THEN [e EXCEPT !.location = [url |-> e.location.url, selector |-> e.location.selector]]
  ELSE e

JsonList(list) == [i \in 1..Len(list) |-> JsonRecord(list[i])]

\* a channel with a bug: the receiver is handed the sender's own array
sendResponseByReference(message) == [shared |-> TRUE, body |-> message]

\* sendResponse(message)
sendResponse(message) ==
  [shared |-> FALSE, body |-> [message EXCEPT !.evidence = JsonList(@)]]

\* what the requester holds after the response callback ran
Received(r) == IF r.shared THEN [r.body EXCEPT !.evidence = evidenceList] ELSE r.body

\* the response of the collectEvidence listener
collectEvidenceResponse(list) == [evidence |-> list, url |-> href, timestamp |-> clock]

(***************************************************************************)
(* Actions.                                                                *)
(***************************************************************************)
NoCall ==
  [call |-> [sink |-> "none", this |-> Window, args |-> <<>>], depth |-> 0,
   after |-> 0, log |-> <<>>, seen |-> <<>>, ret |-> Undefined]

\* a host on which every sink can be replaced
AllOk == [s \in Sinks |-> "ok"]

\* no scoring function applied on its own yet
NoProbe == [fn |-> "none"]

\* the analysis panel as the popup's markup leaves it: not displayed
NoResults ==
  [display |-> "none", score |-> "markup", verdict |-> "markup", summary |-> "markup"]

\* analyzeWithService has not run
InitAnalysis ==
  /\ analysisStage = "idle"
  /\ analysisResults = NoResults
  /\ alerts = <<>>
  /\ analyses = 0

\* the service worker at rest; the popup as its markup and the top of popup.js
\* leave it
InitExtension ==
  /\ bgStage = "idle"
  /\ bgTab = "none"
  /\ bgRequests = 0
  /\ bgAnswers = <<>>
  /\ popupStage = "idle"
  /\ popupTab = "none"
  /\ popupLoads = 0
  /\ lastLoad = "none"
  /\ currentEvidence = <<>>
  /\ currentUrl = ""
  /\ evidenceCount = ""
  /\ riskBadge = ""
  /\ container = "markup"
  /\ typeFilter = "all"
  /\ severityFilter = "all"
  /\ sortBy = "time-desc"
  /\ displayed = <<>>
  /\ downloads = <<>>
  /\ InitAnalysis
  /\ probe = NoProbe

\* the page before content.js is injected, on host p
InitPage(p) ==
  /\ doc = PageDocument
  /\ readyState \in {"loading", "complete"}
  /\ href = "https://page.test/"
  /\ clock = 0
  /\ platform = p
  /\ scriptLoaded = FALSE
  /\ evidenceList = <<>>
  /\ evidenceIdCounter = 0
  /\ hookDepth = [s \in Sinks |-> 0]
  /\ domListeners = 0
  /\ messageListeners = 0
  /\ injections = <<>>
  /\ scanRuns = 0
  /\ events = <<>>
  /\ callCount = 0
  /\ lastCall = NoCall
  /\ responses = <<>>

\* the session before content.js is injected, on host p
InitOn(p) == InitExtension /\ InitPage(p)

Init == InitOn(AllOk)

\* events of the session so far
Steps == Len(injections) + callCount + Len(responses) + clock

\* content.js with `var` for `let`: a second evaluation is not rejected
NeverDeclared == FALSE

\* Evaluating content.js declares `let evidenceList` in the script scope of
\* the isolated world; a second evaluation in the same world finds the
\* binding and is rejected with a SyntaxError before any statement runs.
AlreadyDeclared == scriptLoaded

\* initialize with a bug: the scan is not held back while the document loads
initializeScansAtOnce(st) ==
  LET hooked == hookRuntimeSinks(hookDepth)
  IN [st |-> collectStaticSignals(st),
      deferred |-> FALSE,
      order |-> <<"scan", "hooks">>,
      depth |-> hooked.depth,
      threw |-> hooked.threw]

\* initialize(): the static scan now or on DOMContentLoaded, then the hooks
initialize(st) ==
  LET loading == readyState = "loading"
      hooked == hookRuntimeSinks(hookDepth)
  IN [st |-> IF loading THEN st ELSE collectStaticSignals(st),
      deferred |-> loading,
      order |-> IF loading THEN <<"hooks">> ELSE <<"scan", "hooks">>,
      depth |-> hooked.depth,
      threw |-> hooked.threw]

\* one run of content.js from its first line to its last
RunContentScript ==
  LET r == initialize(Run(<<>>, 0))
  IN /\ scriptLoaded' = TRUE
     /\ messageListeners' = messageListeners + 1
     /\ evidenceList' = r.st.list
     /\ evidenceIdCounter' = r.st.ctr
     /\ domListeners' = IF r.deferred THEN domListeners + 1 ELSE domListeners
     /\ scanRuns' = IF r.deferred THEN scanRuns ELSE scanRuns + 1
     /\ events' = events \o r.order
     /\ hookDepth' = r.depth
     /\ injections' = Append(injections, IF r.threw THEN "TypeError" ELSE "ok")

\* chrome.scripting.executeScript({files: ['src/content.js']}) in the page
executeScript ==
  /\ IF AlreadyDeclared
     THEN /\ injections' = Append(injections, "SyntaxError")
          /\ UNCHANGED << scriptLoaded, messageListeners, evidenceList,
                          evidenceIdCounter, domListeners, scanRuns, events,
                          hookDepth >>
     ELSE RunContentScript
  /\ UNCHANGED << doc, readyState, href, clock, platform, callCount, lastCall,
                  responses >>

\* content.js is injected into the page
InjectContentScript ==
  /\ Steps < MaxSteps
  /\ executeScript
  /\ UNCHANGED << bgVars, popupVars, probe >>

RECURSIVE RunListeners(_, _)
RunListeners(st, n) == IF n = 0 THEN st ELSE RunListeners(collectStaticSignals(st), n - 1)

\* the document finishes parsing: the DOMContentLoaded listeners run
DOMContentLoaded ==
  /\ readyState = "loading"
  /\ readyState' = "complete"
  /\ LET r == RunListeners(Run(evidenceList, evidenceIdCounter), domListeners)
     IN /\ evidenceList' = r.list
        /\ evidenceIdCounter' = r.ctr
  /\ scanRuns' = scanRuns + domListeners
  /\ events' = events \o [i \in 1..domListeners |-> "scan"]
  /\ UNCHANGED << doc, href, clock, platform, scriptLoaded, hookDepth, domListeners,
                  messageListeners, injections, callCount, lastCall, responses >>
  /\ UNCHANGED << bgVars, popupVars, probe >>

\* code running in the world of the collector calls a sink
CallSink ==
  /\ scriptLoaded
  /\ Steps < MaxSteps
  /\ \E c \in SinkInputs :
       LET r == Invoke(c.sink, hookDepth[c.sink], Run(evidenceList, evidenceIdCounter),
                       c.this, c.args)
       IN /\ evidenceList' = r.list
          /\ evidenceIdCounter' = r.ctr
          /\ lastCall' = [call |-> c, depth |-> hookDepth[c.sink],
                          after |-> Len(injections), log |-> r.log, seen |-> r.seen,
                          ret |-> r.ret]
  /\ callCount' = callCount + 1
  /\ UNCHANGED << doc, readyState, href, clock, platform, scriptLoaded, hookDepth,
                  domListeners, messageListeners, injections, scanRuns, events, responses >>
  /\ UNCHANGED << bgVars, popupVars, probe >>

\* the listener with a bug: it hands the records over and empties the store
CollectEvidenceAndClear ==
  /\ messageListeners > 0
  /\ Steps < MaxSteps
  /\ responses' = Append(responses, sendResponse(collectEvidenceResponse(evidenceList)))
  /\ evidenceList' = <<>>
  /\ UNCHANGED << doc, readyState, href, clock, platform, scriptLoaded,
                  evidenceIdCounter, hookDepth, domListeners, messageListeners,
                  injections, scanRuns, events, callCount, lastCall >>
  /\ UNCHANGED << bgVars, popupVars, probe >>

\* the content script's onMessage listener answers {action: 'collectEvidence'}
onCollectEvidence ==
  /\ responses' = Append(responses, sendResponse(collectEvidenceResponse(evidenceList)))
  /\ UNCHANGED << doc, readyState, href, clock, platform, scriptLoaded, evidenceList,
                  evidenceIdCounter, hookDepth, domListeners, messageListeners,
                  injections, scanRuns, events, callCount, lastCall >>

\* a {action: 'collectEvidence'} message reaches the content script's listener
CollectEvidence ==
  /\ messageListeners > 0
  /\ Steps < MaxSteps
  /\ onCollectEvidence
  /\ UNCHANGED << bgVars, popupVars, probe >>

\* the instant read so far: by a record or by a response
ClockRead ==
  \/ \E i \in 1..Len(evidenceList) : evidenceList[i].time = clock
  \/ \E i \in 1..Len(responses) : responses[i].body.timestamp = clock

\* time passes; instants nobody read are not told apart
Tick ==
  /\ Steps < MaxSteps
  /\ ClockRead
  /\ clock' = clock + 1
  /\ UNCHANGED << doc, readyState, href, platform, scriptLoaded, evidenceList,
                  evidenceIdCounter, hookDepth, domListeners, messageListeners,
                  injections, scanRuns, events, callCount, lastCall, responses >>
  /\ UNCHANGED << bgVars, popupVars, probe >>

Next ==
  \/ InjectContentScript
  \/ DOMContentLoaded
  \/ CallSink
  \/ CollectEvidence
  \/ Tick

Spec == Init /\ [][Next]_vars

\* the same session on a host where one sink may refuse to be replaced
InitHost == \E p \in Platforms : InitOn(p)

SpecHost == InitHost /\ [][Next]_vars

(***************************************************************************)
(* The extension around the page.  The active tab is the observed page, a  *)
(* page the extension cannot run in (chrome://...), or there is none.      *)
(***************************************************************************)
Tabs == {"page", "restricted"}

\* requests made so far
Requests == bgRequests + popupLoads

TabUrl(tab) == IF tab = "page" THEN href ELSE "chrome://extensions/"

\* what the callback of chrome.tabs.sendMessage is handed when no listener
\* answered: undefined (and chrome.runtime.lastError is set)
NoResponse == [t |-> "undefined"]

\* a content script in the tab answers a message
Answers(tab) == tab = "page" /\ messageListeners > 0

\* the response the content script put on the channel last, as its receiver
\* holds it
LastResponse(sent) == Received(sent[Len(sent)])

\* { evidence: [], error: ... }
noData(error) == [evidence |-> <<>>, error |-> error]

\* the fallback with a bug: sendResponse(response), no fallback value
OrElseNothing(response, fallback) == response

\* response || fallback
OrElse(response, fallback) == IF response = NoResponse THEN fallback ELSE response

\* background.js: a {action: 'getEvidence'} message arrives; the listener
\* calls chrome.tabs.query and returns true
GetEvidence ==
  /\ bgStage = "idle"
  /\ Requests < MaxRequests
  /\ bgRequests' = bgRequests + 1
  /\ bgStage' = "query"
  /\ UNCHANGED << bgTab, bgAnswers, pageVars, popupVars, probe >>

\* the callback of chrome.tabs.query: if (tabs[0]) sendMessage else sendResponse
GetEvidenceTabs ==
  /\ bgStage = "query"
  /\ \E tab \in Tabs \cup {"none"} :
       IF tab # "none"
       THEN /\ bgTab' = tab
            /\ bgStage' = "sent"
            /\ UNCHANGED bgAnswers
       ELSE /\ bgAnswers' = Append(bgAnswers,
                 [request |-> bgRequests, body |-> noData("No active tab")])
            /\ bgStage' = "idle"
            /\ UNCHANGED bgTab
  /\ UNCHANGED << bgRequests, pageVars, popupVars, probe >>

\* the message is delivered to the tab and the callback of
\* chrome.tabs.sendMessage runs
GetEvidenceResponse ==
  /\ bgStage = "sent"
  /\ IF Answers(bgTab)
     THEN /\ onCollectEvidence
          /\ bgAnswers' = Append(bgAnswers,
               [request |-> bgRequests,
                body |-> OrElse(LastResponse(responses'),
                                noData("No response from content script"))])
     ELSE /\ UNCHANGED pageVars
          /\ bgAnswers' = Append(bgAnswers,
               [request |-> bgRequests,
                body |-> OrElse(NoResponse, noData("No response from content script"))])
  /\ bgStage' = "idle"
  /\ UNCHANGED << bgTab, bgRequests, popupVars, probe >>

\* the error chrome.scripting.executeScript rejects with in the tab, Null when
\* it resolves: a tab that admits no scripts rejects; whether the promise
\* rejects when content.js itself is rejected on its first line is up to the
\* browser
InjectionErrors(tab) ==
  IF tab # "page" THEN {"Cannot access a chrome:// URL"}
  ELSE IF AlreadyDeclared
       THEN {Null, "Identifier 'evidenceList' has already been declared"}
       ELSE {Null}

\* the handler with a bug: no await, success is reported at once
injectCollectorResponseAtOnce(error) == [success |-> TRUE]

\* try { await executeScript; sendResponse({success: true}) }
\* catch (error) { sendResponse({success: false, error: error.message}) }
injectCollectorResponse(error) ==
  IF error = Null THEN [success |-> TRUE] ELSE [success |-> FALSE, error |-> error]

\* background.js: a {action: 'injectCollector'} message arrives; the listener
\* calls chrome.tabs.query and returns true
InjectCollector ==
  /\ bgStage = "idle"
  /\ Requests < MaxRequests
  /\ bgRequests' = bgRequests + 1
  /\ bgStage' = "injectQuery"
  /\ UNCHANGED << bgTab, bgAnswers, pageVars, popupVars, probe >>

\* the callback of chrome.tabs.query: if (tabs[0]) executeScript else sendResponse
InjectCollectorTabs ==
  /\ bgStage = "injectQuery"
  /\ \E tab \in Tabs \cup {"none"} :
       IF tab # "none"
       THEN /\ bgTab' = tab
            /\ bgStage' = "injecting"
            /\ UNCHANGED bgAnswers
       ELSE /\ bgAnswers' = Append(bgAnswers,
                 [request |-> bgRequests, action |-> "injectCollector",
                  body |-> [success |-> FALSE, error |-> "No active tab"]])
            /\ bgStage' = "idle"
            /\ UNCHANGED bgTab
  /\ UNCHANGED << bgRequests, pageVars, popupVars, probe >>

\* the awaited chrome.scripting.executeScript settles
InjectCollectorSettled ==
  /\ bgStage = "injecting"
  /\ \E error \in InjectionErrors(bgTab) :
       bgAnswers' = Append(bgAnswers,
         [request |-> bgRequests, action |-> "injectCollector",
          body |-> injectCollectorResponse(error)])
  /\ IF bgTab = "page" THEN executeScript ELSE UNCHANGED pageVars
  /\ bgStage' = "idle"
  /\ UNCHANGED << bgTab, bgRequests, popupVars, probe >>

\* the service worker and the messages it handles
NextWorker ==
  \/ DOMContentLoaded
  \/ GetEvidence
  \/ GetEvidenceTabs
  \/ GetEvidenceResponse
  \/ InjectCollector
  \/ InjectCollectorTabs
  \/ InjectCollectorSettled

SpecWorker == Init /\ [][NextWorker]_vars

\* an array as a JavaScript value
Arr(items) == [t |-> "object", items |-> items]

\* the properties every object literal inherits from Object.prototype, and
\* the text of the functions they hold
ObjectPrototype ==
  [k \in {"constructor", "toString", "valueOf", "hasOwnProperty"} |->
     Fn("function " \o (IF k = "constructor" THEN "Object" ELSE k)
          \o "() { [native code] }")]

\* the lookup with a bug: every severity weighs as much as high
severityWeightsAllHigh(severity) == Num(10)

\* popup.js: const severityWeights = { high: 10, medium: 5, low: 2 } and the
\* lookup severityWeights[item.severity]
severityWeights(severity) ==
  CASE severity = "high" -> Num(10)
    [] severity = "medium" -> Num(5)
    [] severity = "low" -> Num(2)
    [] severity \in DOMAIN ObjectPrototype -> ObjectPrototype[severity]
    [] OTHER -> Undefined

\* value || 0: every value met here but undefined is truthy
OrZero(value) == IF typeof(value) = "undefined" THEN Num(0) ELSE value

\* the addition with a bug: score = ... for score += ...
PlusOverwrites(a, b) == b

\* a + b: the sum of two numbers, else the concatenation of the two as text
Plus(a, b) ==
  IF typeof(a) = "number" /\ typeof(b) = "number" THEN Num(a.n + b.n)
  ELSE Str(StringOf(a) \o StringOf(b))

\* a >= n: a text that is no numeral converts to NaN, and NaN >= n is false
AtLeast(a, n) == typeof(a) = "number" /\ a.n >= n

\* evidence.forEach(item => { score += severityWeights[item.severity] || 0 })
RECURSIVE Score(_, _)
Score(score, items) ==
  IF items = <<>> THEN score
  ELSE Score(Plus(score, OrZero(severityWeights(Head(items).severity))), Tail(items))

\* the thresholds with a bug: > for >=
LevelOfExclusive(score) ==
  IF typeof(score) = "number" /\ score.n > 50 THEN "high"
  ELSE IF typeof(score) = "number" /\ score.n > 20 THEN "medium" ELSE "low"

\* let level = 'low'; if (score >= 50) ... else if (score >= 20) ...
LevelOf(score) ==
  IF AtLeast(score, 50) THEN "high" ELSE IF AtLeast(score, 20) THEN "medium" ELSE "low"

\* function calculateRiskLevel(evidence)
calculateRiskLevel(evidence) ==
  IF typeof(evidence) = "undefined" \/ Len(evidence.items) = 0
  THEN [level |-> "low", score |-> Num(0)]
  ELSE LET score == Score(Num(0), evidence.items)
       IN [level |-> LevelOf(score), score |-> score]

\* function renderEvidence(evidence): what the container shows
renderEvidence(evidence) == IF evidence = <<>> THEN "empty" ELSE "list"

\* const severityOrder = { high: 3, medium: 2, low: 1 }
severityOrder(severity) ==
  CASE severity = "high" -> Num(3)
    [] severity = "medium" -> Num(2)
    [] severity = "low" -> Num(1)
    [] severity \in DOMAIN ObjectPrototype -> ObjectPrototype[severity]
    [] OTHER -> Undefined

\* a - b for the comparators; anything but two numbers gives NaN, which sort
\* takes as 0
Minus(a, b) == IF typeof(a) = "number" /\ typeof(b) = "number" THEN a.n - b.n ELSE 0

\* the comparator (a, b) => ... of each sort option
Compare(option, a, b) ==
  CASE option = "time-desc" -> Minus(Num(b.time), Num(a.time))
    [] option = "time-asc" -> Minus(Num(a.time), Num(b.time))
    [] option = "severity-desc" -> Minus(severityOrder(b.severity), severityOrder(a.severity))
    [] option = "severity-asc" -> Minus(severityOrder(a.severity), severityOrder(b.severity))

\* x put into a sorted list behind every element that does not come after it
RECURSIVE Insert(_, _, _)
Insert(option, x, sorted) ==
  IF sorted = <<>> THEN <<x>>
  ELSE IF Compare(option, Head(sorted), x) > 0 THEN <<x>> \o sorted
  ELSE <<Head(sorted)>> \o Insert(option, x, Tail(sorted))

\* Array.prototype.sort with a comparator: a stable sort
RECURSIVE SortFrom(_, _, _)
SortFrom(option, sorted, rest) ==
  IF rest = <<>> THEN sorted
  ELSE SortFrom(option, Insert(option, Head(rest), sorted), Tail(rest))

\* the sort with a bug: severity-desc uses the comparator of severity-asc
sortWrongWay(list, option) ==
  IF option \in {"time-desc", "time-asc", "severity-desc", "severity-asc"}
  THEN SortFrom(IF option = "severity-desc" THEN "severity-asc" ELSE option, <<>>, list)
  ELSE list

\* filtered.sort(...) under the option chosen; any other option sorts nothing
sort(list, option) ==
  IF option \in {"time-desc", "time-asc", "severity-desc", "severity-asc"}
  THEN SortFrom(option, <<>>, list)
  ELSE list

\* the filters with a bug: the severity filter is not applied
filterIgnoresSeverity(list, type, severity) ==
  SelectSeq(list, LAMBDA e : type = "all" \/ e.type = type)

\* [...currentEvidence] under the two filters
filter(list, type, severity) ==
  SelectSeq(SelectSeq(list, LAMBDA e : type = "all" \/ e.type = type),
            LAMBDA e : severity = "all" \/ e.severity = severity)

\* what filterAndSortEvidence hands to renderEvidence when the popup holds
\* `evidence`
filterAndSortEvidence(evidence) ==
  sort(filter(evidence, typeFilter, severityFilter), sortBy)

\* the report with a bug: the records shown, not the records held, are exported
exportReportOfDisplayed ==
  LET risk == calculateRiskLevel(Arr(currentEvidence))
  IN [metadata |-> [url |-> currentUrl,
                    timestamp |-> clock,
                    evidenceCount |-> Len(currentEvidence),
                    riskLevel |-> risk.level,
                    riskScore |-> risk.score],
      evidence |-> displayed,
      summary |->
        [severityCounts |-> [high |-> 0, medium |-> 0, low |-> 0],
         typeCounts |->
           [t \in { currentEvidence[i].type : i \in 1..Len(currentEvidence) } |->
              Len(SelectSeq(currentEvidence, LAMBDA e : e.type = t))]]]

\* function exportReport(): the report it builds from the popup's state
exportReport ==
  LET risk == calculateRiskLevel(Arr(currentEvidence))
      count(severity) ==
        Len(SelectSeq(currentEvidence, LAMBDA e : e.severity = severity))
      types == { currentEvidence[i].type : i \in 1..Len(currentEvidence) }
  IN [metadata |-> [url |-> currentUrl,
                    timestamp |-> clock,
                    evidenceCount |-> Len(currentEvidence),
                    riskLevel |-> risk.level,
                    riskScore |-> risk.score],
      evidence |-> currentEvidence,
      summary |->
        [severityCounts |->
           [high |-> count("high"), medium |-> count("medium"), low |-> count("low")],
         typeCounts |->
           [t \in types |-> Len(SelectSeq(currentEvidence, LAMBDA e : e.type = t))]]]

\* function analyzeWithService(): the report it posts to the service
analysisReport ==
  LET risk == calculateRiskLevel(Arr(currentEvidence))
  IN [metadata |-> [url |-> currentUrl,
                    timestamp |-> clock,
                    evidenceCount |-> Len(currentEvidence),
                    riskLevel |-> risk.level,
                    riskScore |-> risk.score],
      evidence |-> currentEvidence]

\* loadEvidence() starts (the popup opens, or Refresh is clicked) and awaits
\* chrome.tabs.query
LoadEvidence ==
  /\ popupStage = "idle"
  /\ Requests < MaxRequests
  /\ popupLoads' = popupLoads + 1
  /\ popupStage' = "query"
  /\ UNCHANGED << popupTab, lastLoad, currentEvidence, currentUrl, evidenceCount,
                  riskBadge, container, typeFilter, severityFilter, sortBy,
                  displayed, downloads, analysisVars, probe, pageVars, bgVars >>

\* chrome.tabs.query resolves: if (!tab) return; currentUrl = tab.url
LoadEvidenceTabs ==
  /\ popupStage = "query"
  /\ \E tab \in Tabs \cup {"none"} :
       IF tab = "none"
       THEN /\ popupStage' = "idle"
            /\ lastLoad' = "noTab"
            /\ UNCHANGED << popupTab, currentUrl >>
       ELSE /\ popupStage' = "inject"
            /\ popupTab' = tab
            /\ currentUrl' = TabUrl(tab)
            /\ UNCHANGED lastLoad
  /\ UNCHANGED << popupLoads, currentEvidence, evidenceCount, riskBadge, container,
                  typeFilter, severityFilter, sortBy, displayed, downloads,
                  analysisVars, probe, pageVars, bgVars >>

\* await chrome.scripting.executeScript(...) inside try/catch: a rejection
\* (the tab does not admit scripts, or content.js was rejected) is logged
LoadEvidenceInject ==
  /\ popupStage = "inject"
  /\ IF popupTab = "page" THEN executeScript ELSE UNCHANGED pageVars
  /\ popupStage' = "sent"
  /\ UNCHANGED << popupTab, popupLoads, lastLoad, currentEvidence, currentUrl,
                  evidenceCount, riskBadge, container, typeFilter, severityFilter,
                  sortBy, displayed, downloads, analysisVars, probe, bgVars >>

\* after the 500 ms wait the collectEvidence message is sent; its callback
\* runs with the response, or with chrome.runtime.lastError set
LoadEvidenceResponse ==
  /\ popupStage = "sent"
  /\ IF Answers(popupTab)
     THEN /\ onCollectEvidence
          /\ LET response == LastResponse(responses')
             IN /\ currentEvidence' = response.evidence
                /\ evidenceCount' = Decimal(Len(response.evidence))
                /\ riskBadge' = calculateRiskLevel(Arr(response.evidence)).level
                /\ displayed' = filterAndSortEvidence(response.evidence)
                /\ container' = renderEvidence(filterAndSortEvidence(response.evidence))
          /\ lastLoad' = "ok"
     ELSE /\ UNCHANGED pageVars
          /\ container' = "error"
          /\ lastLoad' = "lastError"
          /\ displayed' = <<>>
          /\ UNCHANGED << currentEvidence, evidenceCount, riskBadge >>
  /\ popupStage' = "idle"
  /\ UNCHANGED << popupTab, popupLoads, currentUrl, typeFilter, severityFilter,
                  sortBy, downloads, analysisVars, probe, bgVars >>

\* the extension around a page whose own scripts stay away from the sinks:
\* what the page contributes is the static scan
NextExtension ==
  \/ DOMContentLoaded
  \/ Tick
  \/ GetEvidence
  \/ GetEvidenceTabs
  \/ GetEvidenceResponse
  \/ LoadEvidence
  \/ LoadEvidenceTabs
  \/ LoadEvidenceInject
  \/ LoadEvidenceResponse

SpecExtension == Init /\ [][NextExtension]_vars

(***************************************************************************)
(* The scoring functions applied on their own to bounded inputs.           *)
(***************************************************************************)
\* all sequences over S of length at most n
RECURSIVE SeqsUpTo(_, _)
SeqsUpTo(S, n) ==
  IF n = 0 THEN {<<>>}
  ELSE LET shorter == SeqsUpTo(S, n - 1)
       IN shorter \cup { Append(q, x) : q \in shorter, x \in S }

\* records as calculateRiskLevel reads them: the severities of the evidence
\* record, one no table knows, and one that names a property every object has
QuickRecords ==
  { [type |-> "eval-call", severity |-> "high"],
    [type |-> "javascript-protocol", severity |-> "high"],
    [type |-> "innerhtml-set", severity |-> "medium"],
    [type |-> "inline-script", severity |-> "low"],
    [type |-> "custom", severity |-> "critical"],
    [type |-> "custom", severity |-> "constructor"] }

\* the arguments of calculateRiskLevel: no argument, or an array
QuickInputs == {Undefined} \cup { Arr(q) : q \in SeqsUpTo(QuickRecords, MaxLen) }

\* calculateRiskLevel(evidence) is called
QuickEstimate ==
  /\ probe = NoProbe
  /\ \E evidence \in QuickInputs :
       probe' = [fn |-> "calculateRiskLevel", input |-> evidence,
                 output |-> calculateRiskLevel(evidence)]
  /\ UNCHANGED << pageVars, bgVars, popupVars >>

\* the level of one score is asked for
QuickLevel ==
  /\ probe = NoProbe
  /\ \E n \in 0..MaxScore :
       probe' = [fn |-> "level", input |-> n, output |-> LevelOf(Num(n))]
  /\ UNCHANGED << pageVars, bgVars, popupVars >>

(***************************************************************************)
(* The popup once it holds the records of a load: its selects and its      *)
(* Export Report button.                                                   *)
(***************************************************************************)
\* the kinds of record a load brings
PopupKinds ==
  { [type |-> "eval-call", severity |-> "high"],
    [type |-> "javascript-protocol", severity |-> "high"],
    [type |-> "innerhtml-set", severity |-> "medium"],
    [type |-> "inline-script", severity |-> "low"] }

\* the times of n records in the order of their creation
Times(n) == { t \in [1..n -> 0..1] : \A i \in 1..n : i > 1 => t[i - 1] <= t[i] }

\* the evidence lists of a response: ids count up from 1, times never go back
PopupInputs ==
  UNION { { [i \in 1..Len(q) |->
               [id |-> i, time |-> t[i], type |-> q[i].type, severity |-> q[i].severity]] :
            t \in Times(Len(q)) } :
          q \in SeqsUpTo(PopupKinds, MaxLen) }

TypeOptions == {"all", "eval-call", "innerhtml-set"}

SeverityOptions == {"all", "high", "medium", "low"}

SortOptions == {"time-desc", "time-asc", "severity-desc", "severity-asc"}

\* the popup after loadEvidence brought `evidence` from the observed page
InitPopup ==
  /\ InitPage(AllOk)
  /\ readyState = "complete"
  /\ bgStage = "idle"
  /\ bgTab = "none"
  /\ bgRequests = 0
  /\ bgAnswers = <<>>
  /\ popupStage = "idle"
  /\ popupTab = "page"
  /\ popupLoads = 1
  /\ lastLoad = "ok"
  /\ currentEvidence \in PopupInputs
  /\ currentUrl = TabUrl("page")
  /\ evidenceCount = Decimal(Len(currentEvidence))
  /\ riskBadge = calculateRiskLevel(Arr(currentEvidence)).level
  /\ typeFilter = "all"
  /\ severityFilter = "all"
  /\ sortBy = "time-desc"
  /\ displayed = filterAndSortEvidence(currentEvidence)
  /\ container = renderEvidence(displayed)
  /\ downloads = <<>>
  /\ InitAnalysis
  /\ probe = NoProbe

\* a change listener that also writes the number of displayed records into
\* #evidenceCount
RedisplayRecounts ==
  /\ UNCHANGED << pageVars, bgVars, probe, popupStage, popupTab, popupLoads, lastLoad,
                  currentEvidence, currentUrl, riskBadge, downloads, analysisVars >>
  /\ displayed' = sort(filter(currentEvidence', typeFilter', severityFilter'), sortBy')
  /\ evidenceCount' = Decimal(Len(displayed'))
  /\ container' = renderEvidence(displayed')

\* filterAndSortEvidence() run as the change listener of one of the selects
Redisplay ==
  /\ UNCHANGED << pageVars, bgVars, probe, popupStage, popupTab, popupLoads, lastLoad,
                  currentEvidence, currentUrl, evidenceCount, riskBadge, downloads,
                  analysisVars >>
  /\ displayed' = sort(filter(currentEvidence', typeFilter', severityFilter'), sortBy')
  /\ container' = renderEvidence(displayed')

\* the user picks another type in #typeFilter
ChangeTypeFilter ==
  /\ \E option \in TypeOptions \ {typeFilter} : typeFilter' = option
  /\ UNCHANGED << severityFilter, sortBy >>
  /\ Redisplay

\* the user picks another severity in #severityFilter
ChangeSeverityFilter ==
  /\ \E option \in SeverityOptions \ {severityFilter} : severityFilter' = option
  /\ UNCHANGED << typeFilter, sortBy >>
  /\ Redisplay

\* the user picks another order in #sortBy
ChangeSortBy ==
  /\ \E option \in SortOptions \ {sortBy} : sortBy' = option
  /\ UNCHANGED << typeFilter, severityFilter >>
  /\ Redisplay

\* Export Report is clicked: the report goes to chrome.downloads.download
ExportReport ==
  /\ Len(downloads) < MaxExports
  /\ downloads' = Append(downloads, exportReport)
  /\ UNCHANGED << pageVars, bgVars, probe, popupStage, popupTab, popupLoads, lastLoad,
                  currentEvidence, currentUrl, evidenceCount, riskBadge, container,
                  typeFilter, severityFilter, sortBy, displayed, analysisVars >>

NextPopup ==
  \/ ChangeTypeFilter
  \/ ChangeSeverityFilter
  \/ ChangeSortBy
  \/ ExportReport

SpecPopup == InitPopup /\ [][NextPopup]_vars

\* a popup session from the moment the popup opens: loads (the first one and
\* Refresh clicks) on whatever tab is active, and the selects in between
NextSession ==
  \/ DOMContentLoaded
  \/ LoadEvidence
  \/ LoadEvidenceTabs
  \/ LoadEvidenceInject
  \/ LoadEvidenceResponse
  \/ ChangeTypeFilter
  \/ ChangeSeverityFilter
  \/ ChangeSortBy

SpecSession == Init /\ [][NextSession]_vars

(***************************************************************************)
(* The popup's Analyze with Service button: the report is posted with      *)
(* fetch, and the answer shown or the failure reported.                    *)
(***************************************************************************)
\* the bodies a 2xx answer of the service can carry: an analysis, an analysis
\* without verdict and summary, the JSON value null, and text that is no JSON
ServiceBodies ==
  { [t |-> "object", risk_score |-> Num(65), verdict |-> Str("High Risk"),
     summary |-> Str("Analysis of 3 evidence items")],
    [t |-> "object", risk_score |-> Num(0), verdict |-> Undefined, summary |-> Undefined],
    [t |-> "null"],
    [t |-> "invalid"] }

\* how the awaited fetch can end: rejected (service unreachable), or resolved
\* with a response that is not ok, or with one that is
FetchOutcomes ==
  { [rejected |-> TRUE, ok |-> FALSE, status |-> 0, body |-> [t |-> "invalid"]],
    [rejected |-> FALSE, ok |-> FALSE, status |-> 500, body |-> [t |-> "invalid"]] }
  \cup { [rejected |-> FALSE, ok |-> TRUE, status |-> 200, body |-> b] : b \in ServiceBodies }

\* value || '-'
OrDash(value) == IF typeof(value) = "undefined" THEN "-" ELSE StringOf(value)

\* error.message of what the try block throws, Null when it runs to its end
AnalysisError(outcome) ==
  IF outcome.rejected THEN "Failed to fetch"
  ELSE IF ~outcome.ok
       THEN "Service returned " \o Decimal(outcome.status) \o ": Internal Server Error"
  ELSE IF outcome.body.t = "invalid" THEN "Unexpected token < in JSON at position 0"
  ELSE IF outcome.body.t = "null" THEN "Cannot read properties of null (reading 'risk_score')"
  ELSE Null

\* the texts the panel gets from a result
ResultsOf(result) ==
  [display |-> "block",
   score |-> StringOf(result.risk_score) \o "/100",
   verdict |-> OrDash(result.verdict),
   summary |-> OrDash(result.summary)]

\* analyzeWithService with a bug: the panel is displayed before the answer is
\* looked at
shownFirst(outcome, panel) ==
  IF AnalysisError(outcome) # Null THEN [panel EXCEPT !.display = "block"]
  ELSE ResultsOf(outcome.body)

\* the panel as analyzeWithService leaves it: untouched when fetch, the ok
\* test or response.json() threw, displayed when the result is read
shown(outcome, panel) ==
  IF outcome.rejected \/ ~outcome.ok \/ outcome.body.t = "invalid" THEN panel
  ELSE IF outcome.body.t = "null" THEN [panel EXCEPT !.display = "block"]
  ELSE ResultsOf(outcome.body)

\* Analyze with Service is clicked: the report is built and posted
AnalyzeWithService ==
  /\ analysisStage = "idle"
  /\ analyses < MaxAnalyses
  /\ analyses' = analyses + 1
  /\ analysisStage' = "fetch"
  /\ UNCHANGED << analysisResults, alerts >>
  /\ UNCHANGED << pageVars, bgVars, probe, popupStage, popupTab, popupLoads, lastLoad,
                  currentEvidence, currentUrl, evidenceCount, riskBadge, container,
                  typeFilter, severityFilter, sortBy, displayed, downloads >>

\* the awaited fetch settles and the rest of analyzeWithService runs
AnalyzeSettled ==
  /\ analysisStage = "fetch"
  /\ \E outcome \in FetchOutcomes :
       /\ analysisResults' = shown(outcome, analysisResults)
       /\ alerts' = IF AnalysisError(outcome) # Null
                    THEN Append(alerts, AnalysisError(outcome))
                    ELSE alerts
  /\ analysisStage' = "idle"
  /\ UNCHANGED analyses
  /\ UNCHANGED << pageVars, bgVars, probe, popupStage, popupTab, popupLoads, lastLoad,
                  currentEvidence, currentUrl, evidenceCount, riskBadge, container,
                  typeFilter, severityFilter, sortBy, displayed, downloads >>

NextAnalysis ==
  \/ AnalyzeWithService
  \/ AnalyzeSettled

SpecAnalysis == InitPopup /\ [][NextAnalysis]_vars

(***************************************************************************)
(* The analysis service (service/app.py), as its documentation describes   *)
(* it: severity weights, type multipliers, a sum clamped to 0..100 and a   *)
(* verdict by bands.  Sums are kept in tenths, the multipliers being 2.0,  *)
(* 1.2 and 1.0.                                                            *)
(***************************************************************************)
\* the weight of a severity; no weight is documented for any other severity
ServiceWeight(severity) ==
  CASE severity = "high" -> 15
    [] severity = "medium" -> 8
    [] severity = "low" -> 3
    [] OTHER -> 0

\* the types that evaluate text as code: the eval family and javascript: URLs
DynamicCodeTypes ==
  {"eval-call", "function-constructor", "settimeout-string",
   "setinterval-string", "javascript-protocol"}

\* the types that inject markup
MarkupInjectionTypes ==
  {"innerhtml-set", "outerhtml-set", "insertadjacenthtml",
   "document-write", "document-writeln"}

\* every type counts once: no multiplier at all
ServiceMultiplierNone(type) == 10

\* ten times the multiplier of a type
ServiceMultiplier(type) ==
  IF type \in DynamicCodeTypes THEN 20
  ELSE IF type \in MarkupInjectionTypes THEN 12
  ELSE 10

\* the kinds of record sent to the service
ServiceKinds ==
  << [type |-> "eval-call", severity |-> "high"],
     [type |-> "javascript-protocol", severity |-> "high"],
     [type |-> "innerhtml-set", severity |-> "medium"],
     [type |-> "inline-event-handler", severity |-> "medium"],
     [type |-> "inline-script", severity |-> "low"] >>

\* an evidence collection: how many records of each kind it holds
ServiceInputs == [1..Len(ServiceKinds) -> {0, 1, 2, ManyRecords}]

\* ten times the sum of the weighted and multiplied contributions
RECURSIVE ServiceSum(_, _)
ServiceSum(counts, k) ==
  IF k = 0 THEN 0
  ELSE ServiceSum(counts, k - 1)
       + counts[k] * ServiceWeight(ServiceKinds[k].severity)
                   * ServiceMultiplier(ServiceKinds[k].type)

\* the sum as it is, not brought into the range
ClampNot(n) == n

\* a number brought into 0..100
Clamp(n) == IF n < 0 THEN 0 ELSE IF n > 100 THEN 100 ELSE n

\* the integer scores the sum can become: the documentation names no rounding,
\* so the sum in tenths is rounded down, to the nearest or up, then clamped
ServiceScores(counts) ==
  LET tenths == ServiceSum(counts, Len(ServiceKinds))
  IN { Clamp(tenths \div 10), Clamp((tenths + 5) \div 10), Clamp((tenths + 9) \div 10) }

\* the bands with their lower ends left out
ServiceVerdictExclusive(score) ==
  IF score > 80 THEN "Critical"
  ELSE IF score > 60 THEN "High Risk"
  ELSE IF score > 30 THEN "Medium Risk"
  ELSE IF score > 10 THEN "Low Risk"
  ELSE "Safe"

\* the verdict of a score
ServiceVerdict(score) ==
  IF score >= 80 THEN "Critical"
  ELSE IF score >= 60 THEN "High Risk"
  ELSE IF score >= 30 THEN "Medium Risk"
  ELSE IF score >= 10 THEN "Low Risk"
  ELSE "Safe"

\* POST /analyze: the service scores an evidence collection
ServiceAnalyze ==
  /\ probe = NoProbe
  /\ \E counts \in ServiceInputs : \E score \in ServiceScores(counts) :
       probe' = [fn |-> "analyze", input |-> counts, score |-> score,
                 verdict |-> ServiceVerdict(score)]
  /\ UNCHANGED << pageVars, bgVars, popupVars >>

\* the verdict of one score is asked for
ServiceVerdictOf ==
  /\ probe = NoProbe
  /\ \E score \in 0..100 :
       probe' = [fn |-> "verdict", input |-> score, output |-> ServiceVerdict(score)]
  /\ UNCHANGED << pageVars, bgVars, popupVars >>

NextScoring ==
  \/ QuickEstimate
  \/ QuickLevel
  \/ ServiceAnalyze
  \/ ServiceVerdictOf

SpecScoring == Init /\ [][NextScoring]_vars

(***************************************************************************)
(* Properties.                                                             *)
(***************************************************************************)
\* a sink call is the step
CallStep == callCount' = callCount + 1

\* a collectEvidence response is the step
CollectStep == Len(responses') = Len(responses) + 1

\* the records the step appended
Appended == SubSeq(evidenceList', Len(evidenceList) + 1, Len(evidenceList'))

IsPrefix(s, t) == Len(s) <= Len(t) /\ SubSeq(t, 1, Len(s)) = s

IsStatic(e) == e.stack = Null
IsRuntime(e) == e.stack # Null

\* the type column of the table of instrumented operations
TableType(sink) ==
  CASE sink = "eval" -> "eval-call"
    [] sink = "Function" -> "function-constructor"
    [] sink = "write" -> "document-write"
    [] sink = "writeln" -> "document-writeln"
    [] sink = "setTimeout" -> "settimeout-string"
    [] sink = "setInterval" -> "setinterval-string"
    [] sink = "innerHTML" -> "innerhtml-set"
    [] sink = "outerHTML" -> "outerhtml-set"
    [] sink = "insertAdjacentHTML" -> "insertadjacenthtml"

\* the severity each evidence type is documented to have
TableSeverity ==
  [t \in {"eval-call", "function-constructor", "javascript-protocol",
          "settimeout-string", "setinterval-string"} |-> "high"]
  @@ [t \in {"document-write", "document-writeln", "innerhtml-set", "outerhtml-set",
             "insertadjacenthtml", "inline-event-handler"} |-> "medium"]
  @@ [t \in {"inline-script"} |-> "low"]

\* an invocation the table says is recorded: a scheduler only with code as text
Recorded(e) ==
  /\ hookDepth[e.sink] > 0
  /\ e.sink \in {"setTimeout", "setInterval"} => e.args # <<>> /\ e.args[1].t = "string"

\* C1: in every reachable state the ids of the store are strictly increasing in
\* insertion order, hence pairwise distinct, whatever mix of static-scan and
\* sink-wrapper appends produced them.
C1_IdsStrictlyIncreasing ==
  \A i, j \in 1..Len(evidenceList) :
    i < j => evidenceList[i].id < evidenceList[j].id

\* a store holding static records and runtime records, in both orders
C1_Witness ==
  \E i, j, k \in 1..Len(evidenceList) :
    /\ i < j /\ j < k
    /\ IsRuntime(evidenceList[i])
    /\ IsStatic(evidenceList[j])
    /\ IsRuntime(evidenceList[k])

\* C2: every call of a wrapped sink reaches the original exactly once, with the
\* receiver and the arguments of the call, and returns what the original
\* returns (or throws what it throws): the call log of the originals and the
\* result are those of the unwrapped call, and wrapped eval of "1+1" gives 2.
C2_WrapperDelegatesOnce ==
  [][(CallStep /\ lastCall'.depth >= 1) =>
       LET c == lastCall'.call
           direct == Original(Run(evidenceList, evidenceIdCounter), c)
       IN /\ lastCall'.log[1] = c
          /\ Cardinality({ k \in 1..Len(lastCall'.log) : lastCall'.log[k].sink = c.sink }) = 1
          /\ lastCall'.log = direct.log
          /\ lastCall'.ret = direct.ret
          /\ (c.sink = "eval" /\ c.args = <<Str("1+1")>> => lastCall'.ret = Num(2))]_vars

\* wrapped eval was called with "1+1": one eval-call record, the original ran, 2 came back
C2_Witness ==
  /\ lastCall.depth = 1
  /\ lastCall.call.sink = "eval"
  /\ lastCall.call.args = <<Str("1+1")>>
  /\ lastCall.log = <<lastCall.call>>
  /\ lastCall.ret = Num(2)
  /\ evidenceList # <<>>
  /\ evidenceList[Len(evidenceList)].type = "eval-call"
  /\ evidenceList[Len(evidenceList)].snippet = "1+1"

\* C3: a step with n invocations of wrapped sinks (a scheduler counting only with
\* a string first argument) appends exactly n records, the k-th for the k-th
\* invocation, with ids increasing in invocation order; nothing is coalesced.
C3_OneRecordPerInvocation ==
  [][CallStep =>
       LET invoked == SelectSeq(lastCall'.log, Recorded)
       IN /\ Len(Appended) = Len(invoked)
          /\ IsPrefix(evidenceList, evidenceList')
          /\ \A k \in 1..Len(Appended) :
               /\ Appended[k].type = TableType(invoked[k].sink)
               /\ \A i \in 1..(Len(evidenceList) + k - 1) :
                    evidenceList'[i].id < Appended[k].id]_vars

\* the same sink called twice with the same arguments left two records
C3_Witness ==
  /\ callCount >= 2
  /\ Len(evidenceList) >= 2
  /\ LET a == evidenceList[Len(evidenceList) - 1]
         b == evidenceList[Len(evidenceList)]
     IN /\ IsRuntime(a) /\ IsRuntime(b)
        /\ a.type = b.type /\ a.snippet = b.snippet
        /\ a.id < b.id

\* C4: wrapped setTimeout / setInterval with a first argument that is not a string
\* appends nothing and leaves the id counter alone; with a string it appends
\* exactly one settimeout-string / setinterval-string record; either way the
\* original scheduler receives the call.
C4_SchedulersRecordOnlyText ==
  [][(CallStep /\ lastCall'.depth >= 1
         /\ lastCall'.call.sink \in {"setTimeout", "setInterval"}) =>
       LET c == lastCall'.call
       IN /\ lastCall'.log = <<c>>
          /\ c.args[1].t # "string" =>
               /\ evidenceList' = evidenceList
               /\ evidenceIdCounter' = evidenceIdCounter
          /\ c.args[1].t = "string" =>
               /\ Len(Appended) = 1
               /\ IsPrefix(evidenceList, evidenceList')
               /\ evidenceIdCounter' = evidenceIdCounter + 1
               /\ Appended[1].type =
                    IF c.sink = "setTimeout" THEN "settimeout-string" ELSE "setinterval-string"
               /\ Appended[1].snippet = c.args[1].s]_vars

\* a wrapped scheduler was called with a function reference and no scheduler
\* record exists
C4_Witness ==
  /\ lastCall.depth = 1
  /\ lastCall.call.sink \in {"setTimeout", "setInterval"}
  /\ lastCall.call.args[1].t = "function"
  /\ lastCall.log = <<lastCall.call>>
  /\ evidenceList # <<>>
  /\ \A i \in 1..Len(evidenceList) :
       evidenceList[i].type \notin {"settimeout-string", "setinterval-string"}

\* C5: however often content.js is injected into the session, no sink is wrapped
\* twice: a sink call made after two or more injections appends one record per
\* invocation and each invocation reaches the original once.
C5_NoDoubleWrapping ==
  /\ [](\A s \in Sinks : hookDepth[s] <= 1)
  /\ [](messageListeners <= 1 /\ domListeners <= 1 /\ scanRuns <= 1)
  /\ [][(CallStep /\ Len(injections) >= 2) =>
          /\ Len(Appended) = Len(SelectSeq(lastCall'.log, Recorded))
          /\ \A k \in 1..Len(lastCall'.log) :
               Cardinality({ m \in 1..Len(lastCall'.log) :
                               lastCall'.log[m] = lastCall'.log[k] }) = 1]_vars

\* a sink was called after a second injection: one record, one call of the original
C5_Witness ==
  /\ Len(injections) >= 2
  /\ lastCall.after >= 2
  /\ lastCall.depth = 1
  /\ lastCall.log = <<lastCall.call>>
  /\ evidenceList # <<>>
  /\ evidenceList[Len(evidenceList)].type = TableType(lastCall.call.sink)
  /\ Len(evidenceList) >= 2 =>
       evidenceList[Len(evidenceList) - 1].type # TableType(lastCall.call.sink)

\* C6: when the host refuses the replacement of one sink, content.js still runs
\* to its end without throwing and every other sink is wrapped.
C6_FailureIsolatedPerSink ==
  injections # <<>> =>
    /\ injections[1] = "ok"
    /\ \A s \in Sinks : platform[s] = "ok" => hookDepth[s] >= 1

\* C7: the store starts empty and every step leaves its previous contents an
\* unchanged prefix of its new contents: nothing is removed, reordered or edited.
C7_AppendOnly ==
  /\ evidenceList = <<>>
  /\ [][IsPrefix(evidenceList, evidenceList')]_vars

\* the static scan, a sink call and a collectEvidence request have all acted
C7_Witness ==
  /\ scanRuns >= 1 /\ callCount >= 1 /\ responses # <<>>
  /\ \E i, j \in 1..Len(evidenceList) :
       IsStatic(evidenceList[i]) /\ IsRuntime(evidenceList[j])

\* C8: a collectEvidence request returns every record of the store, in id order,
\* with the page URL and a timestamp, and changes neither the store nor the id
\* counter; a request that follows another with no append in between returns
\* the same list.
C8_CollectReturnsStoreUnchanged ==
  [][CollectStep =>
       LET r == Received(responses'[Len(responses')])
       IN /\ r.evidence = evidenceList
          /\ \A i, j \in 1..Len(r.evidence) : i < j => r.evidence[i].id < r.evidence[j].id
          /\ r.url = href
          /\ r.timestamp = clock
          /\ evidenceList' = evidenceList
          /\ evidenceIdCounter' = evidenceIdCounter
          /\ (responses # <<>>
                /\ Len(Received(responses[Len(responses)]).evidence) = Len(evidenceList))
             => r.evidence = Received(responses[Len(responses)]).evidence]_vars

\* two requests in a row over a store that holds records
C8_Witness ==
  /\ Len(responses) >= 2
  /\ evidenceList # <<>>
  /\ Received(responses[1]).evidence = evidenceList
  /\ Received(responses[2]).evidence = evidenceList

C10_SeverityByType ==
  \A i \in 1..Len(evidenceList) :
    /\ evidenceList[i].type \in DOMAIN TableSeverity
    /\ evidenceList[i].severity = TableSeverity[evidenceList[i].type]
    /\ \A j \in 1..Len(evidenceList) :
         evidenceList[i].type = evidenceList[j].type
           => evidenceList[i].severity = evidenceList[j].severity

\* static and runtime records of all three severities, two of them of one type
C10_Witness ==
  /\ \E i, j \in 1..Len(evidenceList) :
       i # j /\ evidenceList[i].type = evidenceList[j].type
  /\ \A sev \in {"high", "medium", "low"} :
       \E i \in 1..Len(evidenceList) :
         IsStatic(evidenceList[i]) /\ evidenceList[i].severity = sev
  /\ \E i, j \in 1..Len(evidenceList) :
       /\ IsRuntime(evidenceList[i]) /\ evidenceList[i].severity = "high"
       /\ IsRuntime(evidenceList[j]) /\ evidenceList[j].severity = "medium"

\* the first 200 code units of a text
First200(s) == SubSeq(s, 1, IF Len(s) < 200 THEN Len(s) ELSE 200)

\* document positions of the elements a selector matches, in document order
Positions(Matches(_)) ==
  SelectSeq([i \in 1..Len(doc) |-> i], LAMBDA i : Matches(doc[i]))

IsScriptWithoutSrc(elem) == elem.tagName = "SCRIPT" /\ ~hasAttribute(elem, "src")

\* the script element an inline-script record describes
ScriptOf(e) == doc[Positions(IsScriptWithoutSrc)[e.location.index + 1]]

\* the runs of initialize so far
Initializations == Cardinality({ i \in 1..Len(injections) : injections[i] # "SyntaxError" })

StaticTypes == {"inline-event-handler", "javascript-protocol", "inline-script"}

\* C11: every stored snippet has at most 200 code units; a snippet whose source
\* is longer is exactly the first 200 units of the source (checked against the
\* text of the script for inline-script records and against the argument of
\* the call for sink records), and an inline-script record's location.length
\* is the length of the whole text.
C11_SnippetTruncated ==
  [][/\ \A i \in 1..Len(evidenceList') :
          LET e == evidenceList'[i]
          IN /\ Len(e.snippet) <= 200
             /\ e.type = "inline-script" =>
                  /\ e.snippet = First200(ScriptOf(e).text)
                  /\ e.location.length = Len(ScriptOf(e).text)
     /\ (CallStep /\ Recorded(lastCall'.call)) =>
          Appended[1].snippet =
            First200(SinkSnippet(lastCall'.call.sink, lastCall'.call.args))]_vars

\* an inline-script record and a sink record, both cut to 200 units, the
\* script's full length kept
C11_Witness ==
  /\ \E i \in 1..Len(evidenceList) :
       /\ evidenceList[i].type = "inline-script"
       /\ Len(evidenceList[i].snippet) = 200
       /\ evidenceList[i].location.length > 200
  /\ \E i \in 1..Len(evidenceList) :
       /\ evidenceList[i].type = "document-write"
       /\ Len(evidenceList[i].snippet) = 200
  /\ lastCall.call.sink = "write"

\* C12: no run of hookRuntimeSinks ends after a run of collectStaticSignals
\* has ended: the wrappers are in place before the scan starts or while it is
\* pending, whether the document was loading or loaded at injection.
C12_HooksNeverAfterScan ==
  \A i \in 1..Len(events) :
    events[i] = "hooks" => \A j \in 1..(i - 1) : events[j] # "scan"

\* C13: the scan has not run while the document is loading, it has run
\* exactly once when initialize ran and the document is loaded, never more
\* often than initialize, and a sink call, a collectEvidence request or the
\* passing of time neither runs it nor appends a static record.
C13_ScanRunsOnce ==
  [][/\ readyState' = "loading" => scanRuns' = 0
     /\ (scriptLoaded' /\ readyState' = "complete") => scanRuns' = 1
     /\ scanRuns' <= Initializations'
     /\ (CallStep \/ CollectStep \/ clock' # clock) =>
          /\ scanRuns' = scanRuns
          /\ \A k \in 1..Len(Appended) : Appended[k].type \notin StaticTypes]_vars

\* a deferred scan that ran at DOMContentLoaded, then a second injection, a
\* DOM-changing sink call and a request, and still one scan
C13_Witness ==
  /\ events = <<"hooks", "scan">>
  /\ scanRuns = 1
  /\ Len(injections) = 2
  /\ lastCall.call.sink = "innerHTML"
  /\ Len(responses) = 1

\* the records of type inline-event-handler the store holds for element i
HandlerRecords(i) ==
  { j \in 1..Len(evidenceList) :
      /\ evidenceList[j].type = "inline-event-handler"
      /\ evidenceList[j].location.index = i - 1 }

\* the listed event-handler attributes element i carries
HandlerAttrs(i) ==
  { a \in { inlineEventAttrs[n] : n \in 1..Len(inlineEventAttrs) } : hasAttribute(doc[i], a) }

\* C14: once the scan has run, the store holds for every element exactly as
\* many inline-event-handler records as the element carries attributes of the
\* list, all of severity medium, one for each such attribute, and none for an
\* element that carries no such attribute; before the scan it holds none.
C14_OneRecordPerHandlerAttribute ==
  \A i \in 1..Len(doc) :
    IF scanRuns = 0 THEN HandlerRecords(i) = {}
    ELSE /\ Cardinality(HandlerRecords(i)) = Cardinality(HandlerAttrs(i))
         /\ \A j \in HandlerRecords(i) : evidenceList[j].severity = "medium"
         /\ \A a \in HandlerAttrs(i) :
              Cardinality({ j \in HandlerRecords(i) :
                  evidenceList[j].snippet =
                    a \o "=\"" \o getAttribute(doc[i], a) \o "\"" }) = 1

\* the scan has run over an element with two listed attributes, one of them
\* empty, one with one and one with none, and a sink was called since
C14_Witness ==
  /\ scanRuns = 1
  /\ callCount > 0
  /\ \E i, j, k \in 1..Len(doc) :
       /\ Cardinality(HandlerRecords(i)) = 2
       /\ hasAttribute(doc[i], "onclick") /\ getAttribute(doc[i], "onclick") = ""
       /\ Cardinality(HandlerRecords(j)) = 1
       /\ HandlerAttrs(k) = {} /\ HandlerRecords(k) = {}

\* a text in ASCII lower case
RECURSIVE AsciiLower(_)
AsciiLower(s) ==
  IF s = "" THEN ""
  ELSE LET c == SubSeq(s, 1, 1)
           upper == "ABCDEFGHIJKLMNOPQRSTUVWXYZ"
           lower == "abcdefghijklmnopqrstuvwxyz"
           at == { n \in 1..26 : SubSeq(upper, n, n) = c }
       IN (IF at = {} THEN c ELSE LET n == CHOOSE n \in at : TRUE IN SubSeq(lower, n, n))
            \o AsciiLower(SubSeq(s, 2, Len(s)))

\* a reference whose scheme is javascript: (a URL scheme is matched without
\* regard to case)
IsJavascriptUrl(value) ==
  Len(value) >= 11 /\ AsciiLower(SubSeq(value, 1, 11)) = "javascript:"

\* the attribute of element i that can hold a javascript: reference
UrlAttr(i) == IF doc[i].tagName = "A" THEN "href" ELSE "src"

\* element i is an anchor, iframe or image that refers to a javascript: URL
RefersToJavascript(i) ==
  /\ doc[i].tagName \in {"A", "IFRAME", "IMG"}
  /\ hasAttribute(doc[i], UrlAttr(i))
  /\ IsJavascriptUrl(getAttribute(doc[i], UrlAttr(i)))

\* the javascript-protocol records the store holds for element i
ProtocolRecords(i) ==
  { j \in 1..Len(evidenceList) :
      /\ evidenceList[j].type = "javascript-protocol"
      /\ hasAttribute(doc[i], UrlAttr(i))
      /\ evidenceList[j].snippet =
           UrlAttr(i) \o "=\"" \o getAttribute(doc[i], UrlAttr(i)) \o "\""
      /\ evidenceList[j].location.selector =
           ToLowerCase(doc[i].tagName) \o "[" \o UrlAttr(i) \o "^=\"javascript:\"]" }

\* C15: once the scan has run, the store holds exactly one javascript-protocol
\* record, of severity high, for every anchor, iframe or image whose href/src
\* refers to a javascript: URL, whatever other rule matches the element, and
\* none for the other anchors, iframes and images.
C15_OneRecordPerJavascriptUrl ==
  scanRuns = 1 =>
    \A i \in 1..Len(doc) :
      doc[i].tagName \in {"A", "IFRAME", "IMG"} =>
        /\ Cardinality(ProtocolRecords(i)) = (IF RefersToJavascript(i) THEN 1 ELSE 0)
        /\ \A j \in ProtocolRecords(i) : evidenceList[j].severity = "high"

\* the inline-script records the store holds for element i
ScriptRecords(i) ==
  { j \in 1..Len(evidenceList) :
      /\ evidenceList[j].type = "inline-script"
      /\ evidenceList[j].snippet = First200(doc[i].text)
      /\ evidenceList[j].location.length = Len(doc[i].text) }

\* element i is a script without a source whose text is not only white space
IsNonBlankInlineScript(i) ==
  /\ IsScriptWithoutSrc(doc[i])
  /\ \E n \in 1..Len(doc[i].text) : ~IsSpace(SubSeq(doc[i].text, n, n))

\* C16: once the scan has run, the store holds exactly one inline-script
\* record, of severity low, for every script element without a source whose
\* text is non-empty after trimming, and none for a script element with a
\* source or with empty or white-space-only text.
C16_OneRecordPerInlineScript ==
  scanRuns = 1 =>
    /\ \A i \in 1..Len(doc) :
         doc[i].tagName = "SCRIPT" =>
           /\ Cardinality(ScriptRecords(i)) = (IF IsNonBlankInlineScript(i) THEN 1 ELSE 0)
           /\ \A j \in ScriptRecords(i) : evidenceList[j].severity = "low"
    /\ Cardinality({ j \in 1..Len(evidenceList) : evidenceList[j].type = "inline-script" })
         = Cardinality({ i \in 1..Len(doc) : IsNonBlankInlineScript(i) })

\* the scan has run over a script with text, a script with a source and text
\* and a script of white space only
C16_Witness ==
  /\ scanRuns = 1
  /\ \E i, j, k \in 1..Len(doc) :
       /\ IsNonBlankInlineScript(i) /\ ScriptRecords(i) # {}
       /\ doc[j].tagName = "SCRIPT" /\ hasAttribute(doc[j], "src") /\ doc[j].text # ""
       /\ IsScriptWithoutSrc(doc[k]) /\ doc[k].text # "" /\ ~IsNonBlankInlineScript(k)
  /\ Len(responses) > 0

\* the document position of the element a static record describes
ElementOf(e) ==
  CASE e.type = "inline-event-handler" -> e.location.index + 1
    [] e.type = "javascript-protocol" -> Positions(MatchesJsProtocol)[e.location.index + 1]
    [] e.type = "inline-script" -> Positions(IsScriptWithoutSrc)[e.location.index + 1]

\* C17: static records are in the document order of their elements: when the
\* element of one precedes the element of another in the document, the first
\* has the smaller id, whatever rule or severity produced them.
C17_StaticRecordsInDocumentOrder ==
  \A i, j \in 1..Len(evidenceList) :
    LET a == evidenceList[i]
        b == evidenceList[j]
    IN (/\ a.type \in StaticTypes /\ b.type \in StaticTypes
        /\ ElementOf(a) < ElementOf(b)) => a.id < b.id

\* C18: a record has a stack exactly when a sink wrapper produced it: the
\* records a sink call appends have a stack and a sink type, the records a run
\* of the scan appends have none and a static type, and in the store stack is
\* null exactly for the three static types.
C18_StackOnlyForSinkRecords ==
  [][/\ CallStep =>
          \A k \in 1..Len(Appended) :
            Appended[k].stack # Null /\ Appended[k].type \notin StaticTypes
     /\ scanRuns' # scanRuns =>
          \A k \in 1..Len(Appended) :
            Appended[k].stack = Null /\ Appended[k].type \in StaticTypes
     /\ \A i \in 1..Len(evidenceList') :
          evidenceList'[i].stack = Null <=> evidenceList'[i].type \in StaticTypes]_vars

\* records of all three static types and of a sink, the sink's with a stack
C18_Witness ==
  /\ \A t \in StaticTypes :
       \E i \in 1..Len(evidenceList) :
         evidenceList[i].type = t /\ evidenceList[i].stack = Null
  /\ \E i \in 1..Len(evidenceList) :
       evidenceList[i].type = "innerhtml-set" /\ evidenceList[i].stack # Null

\* the answers the service worker gave to its n-th getEvidence request
AnswersTo(n) == { i \in 1..Len(bgAnswers) : bgAnswers[i].request = n }

\* an explicit no-data result
IsNoData(body) ==
  /\ DOMAIN body = {"evidence", "error"}
  /\ body.evidence = <<>>
  /\ body.error \in {"No active tab", "No response from content script"}

\* a response of the content script
IsResponse(body) == \E k \in 1..Len(responses) : body = responses[k].body

\* C19: every getEvidence request is answered exactly once (a request whose
\* callbacks are still pending not yet, every other request once); the answer
\* is the content script's response when one arrived, else {evidence: [],
\* error: 'No response from content script'}, and {evidence: [], error: 'No
\* active tab'} without an active tab; never anything else (no undefined, no
\* thrown fault); and a pending request is never stuck: the callback that
\* leads to its answer can run.
C19_GetEvidenceAnsweredOnce ==
  /\ [](\A n \in 1..bgRequests :
          Cardinality(AnswersTo(n)) =
            (IF n < bgRequests \/ bgStage = "idle" THEN 1 ELSE 0))
  /\ [](\A i \in 1..Len(bgAnswers) :
          IsNoData(bgAnswers[i].body) \/ IsResponse(bgAnswers[i].body))
  /\ [][/\ (bgStage = "sent" /\ bgStage' = "idle") =>
             bgAnswers'[Len(bgAnswers')].body =
               (IF Len(responses') > Len(responses)
                THEN responses'[Len(responses')].body
                ELSE [evidence |-> <<>>, error |-> "No response from content script"])
        /\ (bgStage = "query" /\ bgStage' = "idle") =>
             bgAnswers'[Len(bgAnswers')].body =
               [evidence |-> <<>>, error |-> "No active tab"]]_vars
  /\ [](/\ bgStage = "query" => ENABLED GetEvidenceTabs
        /\ bgStage = "sent" => ENABLED GetEvidenceResponse)

\* a request answered with no data, then one answered with the records of the
\* content script the popup injected in between
C19_Witness ==
  /\ bgStage = "idle"
  /\ bgRequests = 2
  /\ IsNoData(bgAnswers[1].body)
  /\ IsResponse(bgAnswers[2].body)
  /\ bgAnswers[2].body.evidence # <<>>

\* a loadEvidence run ends in failure at this step
LoadFails == popupStage # "idle" /\ popupStage' = "idle" /\ lastLoad' = "lastError"

\* C20: when a collection attempt fails while the popup holds the results of
\* an earlier successful load, the popup lets go of them: currentEvidence (the
\* evidence of Export Report and Analyze with Service), the evidence count and
\* the risk badge are not the earlier load's any more.
C20_FailedLoadDropsEarlierResults ==
  [][(LoadFails /\ currentEvidence # <<>>) =>
       /\ currentEvidence' # currentEvidence
       /\ evidenceCount' # evidenceCount
       /\ riskBadge \in {"medium", "high"} => riskBadge' # riskBadge
       /\ exportReport'.evidence # currentEvidence
       /\ analysisReport'.evidence # currentEvidence]_vars


\* calculateRiskLevel was applied to an array
IsQuick == probe.fn = "calculateRiskLevel" /\ typeof(probe.input) = "object"

\* how many records of a list have the severity
Count(items, severity) == Len(SelectSeq(items, LAMBDA e : e.severity = severity))

WeightedSum(items) ==
  10 * Count(items, "high") + 5 * Count(items, "medium") + 2 * Count(items, "low")

Band(n) == IF n < 20 THEN "low" ELSE IF n < 50 THEN "medium" ELSE "high"

Scenario ==
  << [type |-> "eval-call", severity |-> "high"],
     [type |-> "javascript-protocol", severity |-> "high"],
     [type |-> "innerhtml-set", severity |-> "medium"] >>

Severities == {"high", "medium", "low"}

WellFormed(items) == \A i \in 1..Len(items) : items[i].severity \in Severities

Rearrangements(n) == { f \in [1..n -> 1..n] : \A i, j \in 1..n : f[i] = f[j] => i = j }

Permuted(items, f) == [i \in 1..Len(items) |-> items[f[i]]]

\* C23: calculateRiskLevel returns the same score and the same level for an
\* evidence list and for each of its permutations.
C23_OrderIndependent ==
  IsQuick /\ WellFormed(probe.input.items) =>
    \A f \in Rearrangements(Len(probe.input.items)) :
      calculateRiskLevel(Arr(Permuted(probe.input.items, f))) = probe.output

C23_Witness ==
  /\ IsQuick
  /\ probe.input.items = << [type |-> "inline-script", severity |-> "low"],
                            [type |-> "eval-call", severity |-> "high"],
                            [type |-> "innerhtml-set", severity |-> "medium"] >>
  /\ probe.output.score = Num(17)

Without(items, k) == SubSeq(items, 1, k - 1) \o SubSeq(items, k + 1, Len(items))

Rank(level) == CASE level = "low" -> 0 [] level = "medium" -> 1 [] level = "high" -> 2

VerdictBand(score) ==
  CASE score \in 0..9 -> "Safe"
    [] score \in 10..29 -> "Low Risk"
    [] score \in 30..59 -> "Medium Risk"
    [] score \in 60..79 -> "High Risk"
    [] score \in 80..100 -> "Critical"

VerdictRank(verdict) ==
  CASE verdict = "Safe" -> 0
    [] verdict = "Low Risk" -> 1
    [] verdict = "Medium Risk" -> 2
    [] verdict = "High Risk" -> 3
    [] verdict = "Critical" -> 4

\* C25: every integer score from 0 to 100 has the one verdict of its band
\* (0-9 Safe, 10-29 Low Risk, 30-59 Medium Risk, 60-79 High Risk, 80-100
\* Critical), and no lower score has a higher verdict.
C25_VerdictMapping ==
  /\ probe.fn = "verdict" =>
       /\ probe.output = VerdictBand(probe.input)
       /\ \A lower \in 0..probe.input :
            VerdictRank(ServiceVerdict(lower)) <= VerdictRank(probe.output)
  /\ probe.fn = "analyze" => probe.verdict = VerdictBand(probe.score)

C25_Witness == probe.fn = "verdict" /\ probe.input = 60 /\ probe.output = "High Risk"

\* C26: the score of the service is an integer from 0 to 100 for every
\* evidence collection, also one with ManyRecords high-severity records.
C26_ServiceScoreInRange == probe.fn = "analyze" => probe.score \in 0..100

C26_Witness ==
  /\ probe.fn = "analyze"
  /\ probe.input[1] = ManyRecords
  /\ ServiceSum(probe.input, Len(ServiceKinds)) > 1000
  /\ probe.score = 100

\* one eval-call, one javascript-protocol and one innerhtml-set record
ServiceScenario == [k \in 1..Len(ServiceKinds) |-> IF k <= 3 THEN 1 ELSE 0]

Matches(e) ==
  /\ typeFilter = "all" \/ e.type = typeFilter
  /\ severityFilter = "all" \/ e.severity = severityFilter

\* how often a record occurs in a list
Occurrences(e, list) == Len(SelectSeq(list, LAMBDA x : x = e))

\* one of the selects changes and filterAndSortEvidence runs
ChangeStep == << typeFilter, severityFilter, sortBy >>' # << typeFilter, severityFilter, sortBy >>

\* C28: the records displayed are the records of currentEvidence that pass the
\* type filter and the severity filter ('all' passing every record), each one
\* once and no other record; filterAndSortEvidence leaves currentEvidence as
\* it is, contents and order.
C28_DisplayedAreTheMatching ==
  /\ [](/\ \A i \in 1..Len(currentEvidence) :
             Occurrences(currentEvidence[i], displayed)
               = IF Matches(currentEvidence[i]) THEN 1 ELSE 0
        /\ \A i \in 1..Len(displayed) : Occurrences(displayed[i], currentEvidence) = 1)
  /\ [][ChangeStep => currentEvidence' = currentEvidence]_vars

\* a list of mixed records under both filters: some shown, some not, and the
\* shown ones in another order than in currentEvidence
C28_Witness ==
  /\ typeFilter = "eval-call"
  /\ severityFilter = "high"
  /\ sortBy = "time-desc"
  /\ Len(currentEvidence) = 3
  /\ Len(displayed) = 2
  /\ displayed[1].id > displayed[2].id
  /\ displayed[1].time > displayed[2].time

SeverityRank(severity) ==
  CASE severity = "low" -> 1 [] severity = "medium" -> 2 [] severity = "high" -> 3

\* C29: under severity-desc no record is displayed before one of a higher
\* severity (severity-asc: of a lower severity), under time-asc none before an
\* earlier one (time-desc: a later one); under every option the displayed
\* list is a permutation of the filtered records.
C29_DisplayedInOrder ==
  /\ \A i, j \in 1..Len(displayed) : i < j =>
       CASE sortBy = "severity-desc" ->
              SeverityRank(displayed[i].severity) >= SeverityRank(displayed[j].severity)
         [] sortBy = "severity-asc" ->
              SeverityRank(displayed[i].severity) <= SeverityRank(displayed[j].severity)
         [] sortBy = "time-asc" -> displayed[i].time <= displayed[j].time
         [] sortBy = "time-desc" -> displayed[i].time >= displayed[j].time
  /\ LET filtered == SelectSeq(currentEvidence, Matches)
     IN /\ Len(displayed) = Len(filtered)
        /\ \A i \in 1..Len(filtered) :
             Occurrences(filtered[i], displayed) = Occurrences(filtered[i], filtered)

\* low, high, medium records displayed as high, medium, low
C29_Witness ==
  /\ sortBy = "severity-desc"
  /\ Len(displayed) = 3
  /\ currentEvidence[1].severity = "low"
  /\ currentEvidence[2].severity = "high"
  /\ currentEvidence[3].severity = "medium"
  /\ displayed = << currentEvidence[2], currentEvidence[3], currentEvidence[1] >>

\* the sum of the counts of a typeCounts object
RECURSIVE SumOf(_)
SumOf(counts) ==
  IF DOMAIN counts = {} THEN 0
  ELSE LET t == CHOOSE x \in DOMAIN counts : TRUE
       IN counts[t] + SumOf([x \in DOMAIN counts \ {t} |-> counts[x]])

\* Export Report is clicked at this step
ExportStep == downloads' # downloads

\* C30: an exported report holds the popup's evidence and URL as they are when
\* it is built; its evidenceCount is the length of its evidence array, its
\* riskLevel and riskScore are calculateRiskLevel of that array, its typeCounts
\* add up to evidenceCount; exporting leaves currentEvidence and currentUrl as
\* they are.
C30_ReportConsistent ==
  /\ [](\A i \in 1..Len(downloads) :
          LET report == downloads[i]
              risk == calculateRiskLevel(Arr(report.evidence))
          IN /\ report.metadata.evidenceCount = Len(report.evidence)
             /\ report.metadata.riskLevel = risk.level
             /\ report.metadata.riskScore = risk.score
             /\ SumOf(report.summary.typeCounts) = report.metadata.evidenceCount)
  /\ [][ExportStep =>
          /\ downloads'[Len(downloads')].evidence = currentEvidence
          /\ downloads'[Len(downloads')].metadata.url = currentUrl
          /\ currentEvidence' = currentEvidence
          /\ currentUrl' = currentUrl]_vars

\* a report exported while a filter hides some of the three records held
C30_Witness ==
  /\ Len(downloads) = 1
  /\ downloads[1].metadata.evidenceCount = 3
  /\ downloads[1].metadata.riskScore = Num(25)
  /\ DOMAIN downloads[1].summary.typeCounts = {"eval-call", "innerhtml-set"}
  /\ downloads[1].summary.typeCounts["eval-call"] = 2
  /\ Len(displayed) = 1


\* C32: a wrapper appends its record and then delegates: when the original
\* starts, the newest record of the store is the one of this invocation and
\* nothing else was appended since the call; a sink reached from inside the
\* original (eval of code that calls document.write) is recorded after the
\* outer invocation, under a larger id.
C32_RecordThenDelegate ==
  [][(CallStep /\ lastCall'.depth >= 1) =>
       LET log == lastCall'.log
           seen == lastCall'.seen
       IN /\ Len(seen) = Len(log)
          /\ seen[1] = Len(evidenceList) + (IF Recorded(lastCall'.call) THEN 1 ELSE 0)
          /\ \A k \in 1..Len(log) :
               Recorded(log[k]) =>
                 /\ seen[k] > 0
                 /\ evidenceList'[seen[k]].type = TableType(log[k].sink)
                 /\ evidenceList'[seen[k]].id > evidenceIdCounter
                 /\ \A m \in 1..(k - 1) :
                      Recorded(log[m]) => /\ seen[m] < seen[k]
                                          /\ evidenceList'[seen[m]].id
                                               < evidenceList'[seen[k]].id]_vars

\* eval of code that calls document.write, both hooked: the eval-call record
\* comes first, the document-write record next
C32_Witness ==
  /\ lastCall.depth = 1
  /\ lastCall.call.sink = "eval"
  /\ Len(lastCall.log) = 2
  /\ lastCall.log[2].sink = "write"
  /\ hookDepth["write"] = 1
  /\ lastCall.seen = << Len(evidenceList) - 1, Len(evidenceList) >>
  /\ evidenceList[Len(evidenceList) - 1].type = "eval-call"
  /\ evidenceList[Len(evidenceList)].type = "document-write"
  /\ evidenceList[Len(evidenceList) - 1].id + 1 = evidenceList[Len(evidenceList)].id


\* what the host's own operation does with the call when it is made directly
Unwrapped(c) == Original(Run(evidenceList, evidenceIdCounter), Forwarded(c.sink, c.this, c.args))

\* C33: when the original throws (eval of code that does not parse), the
\* caller of the wrapper gets that exception, the record of the invocation
\* stays in the store, and the sink calls that follow are recorded under
\* larger ids.
C33_ThrowingOriginalKeepsRecord ==
  /\ [][(CallStep /\ lastCall'.depth >= 1 /\ typeof(Unwrapped(lastCall'.call).ret) = "throw") =>
          /\ lastCall'.ret = Unwrapped(lastCall'.call).ret
          /\ Len(Appended) = 1
          /\ Appended[1].type = TableType(lastCall'.call.sink)
          /\ Appended[1].id = evidenceIdCounter + 1
          /\ IsPrefix(evidenceList, evidenceList')]_vars
  /\ [][(CallStep /\ typeof(lastCall.ret) = "throw" /\ lastCall.depth >= 1) =>
          /\ IsPrefix(evidenceList, evidenceList')
          /\ \E i \in 1..Len(evidenceList') :
               /\ evidenceList'[i].type = TableType(lastCall.call.sink)
               /\ evidenceList'[i].snippet
                    = First200(SinkSnippet(lastCall.call.sink, lastCall.call.args))
          /\ Recorded(lastCall'.call) =>
               /\ Appended # <<>>
               /\ Appended[1].id > evidenceList[Len(evidenceList)].id]_vars

\* eval("(") threw, its record is in the store, and the next sink call was
\* recorded under the next id
C33_Witness ==
  /\ callCount >= 2
  /\ typeof(lastCall.ret) # "throw"
  /\ \E i \in 1..(Len(evidenceList) - 1) :
       /\ evidenceList[i].type = "eval-call"
       /\ evidenceList[i].snippet = "("
       /\ IsRuntime(evidenceList[i + 1])
       /\ evidenceList[i + 1].id = evidenceList[i].id + 1


\* C34: evidenceIdCounter is the number of records in the store and the k-th
\* record has id k, whatever static-scan and sink appends filled the store.
C34_IdsCountTheStore ==
  /\ evidenceIdCounter = Len(evidenceList)
  /\ \A k \in 1..Len(evidenceList) : evidenceList[k].id = k

\* a store filled by a sink call, then the deferred scan, then a sink call
C34_Witness ==
  /\ Len(evidenceList) >= 3
  /\ IsRuntime(evidenceList[1])
  /\ IsStatic(evidenceList[2])
  /\ IsRuntime(evidenceList[Len(evidenceList)])
  /\ evidenceIdCounter = Len(evidenceList)


\* C35: the records of the static scan lie next to one another in the store:
\* no sink record stands between two of them, also when the scan waits for
\* DOMContentLoaded while the sinks are hooked and called.
C35_ScanRecordsContiguous ==
  \A i, j, k \in 1..Len(evidenceList) :
    (i < j /\ j < k /\ IsStatic(evidenceList[i]) /\ IsStatic(evidenceList[k]))
      => IsStatic(evidenceList[j])

\* the scan was deferred: a sink record, the records of the scan, a sink record
C35_Witness ==
  /\ events = <<"hooks", "scan">>
  /\ Len(evidenceList) >= 4
  /\ IsRuntime(evidenceList[1])
  /\ IsStatic(evidenceList[2])
  /\ IsStatic(evidenceList[Len(evidenceList) - 1])
  /\ IsRuntime(evidenceList[Len(evidenceList)])


\* the answers given to the n-th request, an injectCollector request
InjectAnswers(n) ==
  { i \in 1..Len(bgAnswers) :
      bgAnswers[i].request = n /\ "action" \in DOMAIN bgAnswers[i] }

\* the handler of an injectCollector request gives its answer at this step
InjectAnswerStep ==
  /\ bgStage \in {"injectQuery", "injecting"}
  /\ bgStage' = "idle"

\* C36: an injectCollector request gets one answer: {success: true} when
\* executeScript put content.js into the active tab, {success: false, error}
\* when there is no active tab or executeScript rejected; the handler always
\* gets to its answer.
C36_InjectCollectorAnsweredOnce ==
  /\ [][InjectAnswerStep =>
          LET answer == bgAnswers'[Len(bgAnswers')]
          IN /\ Len(bgAnswers') = Len(bgAnswers) + 1
             /\ answer.request = bgRequests
             /\ InjectAnswers(bgRequests) = {}
             /\ \/ /\ answer.body = [success |-> TRUE]
                   /\ bgStage = "injecting"
                   /\ bgTab = "page"
                   /\ Len(injections') = Len(injections) + 1
                \/ /\ DOMAIN answer.body = {"success", "error"}
                   /\ answer.body.success = FALSE
                   /\ \/ bgStage = "injectQuery" /\ answer.body.error = "No active tab"
                      \/ bgStage = "injecting" /\ answer.body.error \in InjectionErrors(bgTab)]_vars
  /\ [][~InjectAnswerStep => \A n \in 1..bgRequests :
          \A i \in InjectAnswers(n)' : i \in InjectAnswers(n)]_vars
  /\ [](/\ bgStage = "injectQuery" => ENABLED InjectCollectorTabs
        /\ bgStage = "injecting" => bgTab \in Tabs /\ InjectionErrors(bgTab) # {})

\* three requests: one injected the content script, one found a tab that
\* admits no scripts, one found no active tab
C36_Witness ==
  /\ bgStage = "idle"
  /\ Len(bgAnswers) = 3
  /\ \A i \in 1..3 : "action" \in DOMAIN bgAnswers[i] /\ bgAnswers[i].request = i
  /\ bgAnswers[1].body = [success |-> TRUE]
  /\ bgAnswers[2].body.success = FALSE
  /\ bgAnswers[2].body.error # "No active tab"
  /\ bgAnswers[3].body = [success |-> FALSE, error |-> "No active tab"]
  /\ injections = <<"ok">>


\* an analyzeWithService run ends at this step
AnalysisEnds == analysisStage = "fetch" /\ analysisStage' = "idle"

\* it ends because fetch rejected or the response was not ok
ServiceFailed ==
  /\ AnalysisEnds
  /\ Len(alerts') = Len(alerts) + 1
  /\ \/ alerts'[Len(alerts')] = "Failed to fetch"
     \/ StartsWith(alerts'[Len(alerts')], "Service returned ")

\* C31: when the service cannot be reached or answers with a status that is
\* not 2xx, analyzeWithService alerts and changes nothing else:
\* currentEvidence, currentUrl, the evidence count, the risk badge and the
\* analysis panel stay as they were, and the button can be used again.
C31_ServiceFailureReported ==
  /\ [][AnalysisEnds =>
          \/ Len(alerts') = Len(alerts) + 1
          \/ alerts' = alerts /\ analysisResults'.display = "block"]_vars
  /\ [][ServiceFailed =>
          /\ analysisResults' = analysisResults
          /\ << currentEvidence, currentUrl, evidenceCount, riskBadge >>'
               = << currentEvidence, currentUrl, evidenceCount, riskBadge >>
          /\ << container, displayed, typeFilter, severityFilter, sortBy, downloads >>'
               = << container, displayed, typeFilter, severityFilter, sortBy, downloads >>
          /\ analysisStage' = "idle"]_vars
  /\ [](analysisStage = "fetch" =>
          \A outcome \in FetchOutcomes :
            (outcome.rejected \/ ~outcome.ok) => AnalysisError(outcome) # Null)

\* the service was down at the first click (an alert, the panel still not
\* displayed) and answered at the second
C31_Witness ==
  /\ analyses = 2
  /\ analysisStage = "idle"
  /\ alerts = <<"Failed to fetch">>
  /\ analysisResults.display = "block"
  /\ analysisResults.score = "65/100"
  /\ currentEvidence # <<>>


\* the report pairs a URL with evidence that a response of that URL's page
\* carried
OfOnePage(report) ==
  \E k \in 1..Len(responses) :
    /\ Received(responses[k]).evidence = report.evidence
    /\ Received(responses[k]).url = report.metadata.url

\* C37: whenever the popup holds evidence, the report exportReport builds and
\* the report analyzeWithService posts pair metadata.url with evidence that
\* was collected from the page of that URL, however loadEvidence runs
\* succeeded and failed before.
C37_UrlAndEvidenceOfOnePage ==
  currentEvidence # <<>> => OfOnePage(exportReport) /\ OfOnePage(analysisReport)


\* a loadEvidence run ends with the evidence of the page at this step
LoadSucceeds ==
  popupStage = "sent" /\ Answers(popupTab) /\ popupStage' = "idle" /\ lastLoad' = "ok"

\* C38: after any sequence of popup events the text of #evidenceCount is
\* currentEvidence.length and the risk badge shows
\* calculateRiskLevel(currentEvidence).level (until the first load writes them
\* the store is empty and both elements still hold their markup); the three
\* change only together and only in the step that ends a successful
\* collection, and a change of a filter or of the order changes none of them.
C38_CountAndBadgeFollowEvidence ==
  /\ [](IF evidenceCount = ""
        THEN riskBadge = "" /\ currentEvidence = <<>>
        ELSE /\ evidenceCount = Decimal(Len(currentEvidence))
             /\ riskBadge = calculateRiskLevel(Arr(currentEvidence)).level)
  /\ [][<< currentEvidence, evidenceCount, riskBadge >>'
          # << currentEvidence, evidenceCount, riskBadge >> => LoadSucceeds]_vars
  /\ [][LoadSucceeds =>
          /\ evidenceCount' = Decimal(Len(currentEvidence'))
          /\ riskBadge' = calculateRiskLevel(Arr(currentEvidence')).level]_vars
  /\ [][ChangeStep =>
          << currentEvidence, evidenceCount, riskBadge >>'
            = << currentEvidence, evidenceCount, riskBadge >>]_vars

\* ten records of the page were loaded, the severity filter was set to high,
\* a Refresh on a tab without content script failed, and a further change
\* of a select drew the filtered list again: fewer records are displayed
\* than the count, which still is the length of currentEvidence
C38_Witness ==
  /\ lastLoad = "lastError"
  /\ popupLoads = 2
  /\ severityFilter = "high"
  /\ sortBy = "severity-asc"
  /\ displayed # <<>>
  /\ Len(displayed) < Len(currentEvidence)
  /\ evidenceCount = Decimal(Len(currentEvidence))
  /\ riskBadge = "high"
====
